---- MODULE Spec2Model ----
(***************************************************************************)
(* A model of the five-stage pipelined RV32 simulator (CPU.cpp, ALU.cpp,   *)
(* MemoryIf.h, BranchPredictor.h).                                         *)
(*                                                                         *)
(* Representation of machine integers.  TLC integers are 32-bit, so every  *)
(* 32-bit quantity of the program (int32_t and uint32_t alike) is held as  *)
(* the signed integer with the same bit pattern, in MinInt32..MaxInt32.    *)
(* x \div 2^k is then the arithmetic shift and (x \div 2^k) % 2^n the      *)
(* n-bit field at bit k, for signed and unsigned words alike.  Unsigned    *)
(* comparisons are made on the bit patterns (ULess).                       *)
(***************************************************************************)
EXTENDS Integers, Sequences, FiniteSets, TLC

MaxInt32 == 2147483647
MinInt32 == -MaxInt32 - 1

(* ----------------------------------------------------------------------- *)
(* 32-bit arithmetic on bit patterns                                        *)
(* ----------------------------------------------------------------------- *)

\* a + b modulo 2^32, as int32 (no intermediate leaves the 32-bit range)
Add32(a, b) ==
    IF a >= 0 /\ b >= 0 /\ a > MaxInt32 - b
      THEN (a + MinInt32) + (b + MinInt32)
    ELSE IF a < 0 /\ b < 0 /\ a < MinInt32 - b
      THEN (a - MinInt32) + (b - MinInt32)
    ELSE a + b

\* two's complement negation modulo 2^32
Neg32(a) == IF a = MinInt32 THEN MinInt32 ELSE -a

Sub32(a, b) == IF b = MinInt32 THEN Add32(Add32(a, MaxInt32), 1) ELSE Add32(a, -b)

\* the n-bit field of w that starts at bit lo (n <= 30)
Field(w, lo, n) == (w \div (2^lo)) % (2^n)

Bit(w, k) == IF k = 31 THEN (IF w < 0 THEN 1 ELSE 0) ELSE (w \div (2^k)) % 2

\* the 32-bit word whose upper and lower halfwords are hi and lo (0..65535)
Word(hi, lo) == (IF hi >= 32768 THEN hi - 65536 ELSE hi) * 65536 + lo

\* v (0 <= v < 2^16) shifted left by k (0..31) inside 32 bits (bits past 31 lost)
Shl(v, k) ==
    LET lo16 == IF k >= 16 THEN 0 ELSE (v % (2^(16 - k))) * (2^k)
        hi16 == IF k >= 16 THEN (v % (2^(32 - k))) * (2^(k - 16))
                ELSE v \div (2^(16 - k))
    IN  Word(hi16, lo16)

\* unsigned order of two 32-bit patterns
ULess(a, b) ==
    IF (a < 0) = (b < 0) THEN a < b ELSE b < 0

RECURSIVE BitOp31(_, _, _, _)
BitOp31(op, a, b, n) ==
    IF n = 0 \/ (a = 0 /\ b = 0) THEN 0
    ELSE LET x == a % 2
             y == b % 2
             z == CASE op = "and" -> x * y
                    [] op = "or"  -> IF x + y > 0 THEN 1 ELSE 0
                    [] OTHER      -> (x + y) % 2
         IN  z + 2 * BitOp31(op, a \div 2, b \div 2, n - 1)

\* bitwise and / or / xor of two 32-bit patterns
BitOp32(op, a, b) ==
    LET x == IF a < 0 THEN 1 ELSE 0
        y == IF b < 0 THEN 1 ELSE 0
        top == CASE op = "and" -> x * y
                 [] op = "or"  -> IF x + y > 0 THEN 1 ELSE 0
                 [] OTHER      -> (x + y) % 2
    IN  BitOp31(op, a, b, 31) + (IF top = 1 THEN MinInt32 ELSE 0)

And32(a, b) == BitOp32("and", a, b)
Or32(a, b)  == BitOp32("or", a, b)
Xor32(a, b) == BitOp32("xor", a, b)

\* the low 31 bits of a 32-bit pattern
Low31(a) == IF a < 0 THEN a - MinInt32 ELSE a

\* a << k modulo 2^32 for a 32-bit pattern a, 0 <= k <= 31
ShlWord(a, k) ==
    IF k = 0 THEN a
    ELSE IF k = 31 THEN (IF a % 2 = 1 THEN MinInt32 ELSE 0)
    ELSE LET keep == IF k = 1 THEN Low31(a) ELSE a % (2^(32 - k))
             top  == keep \div (2^(31 - k))          \* becomes bit 31
             low  == keep % (2^(31 - k))
         IN  low * (2^k) + (IF top = 1 THEN MinInt32 ELSE 0)

\* logical a >> k for a 32-bit pattern a, 0 <= k <= 31
ShrWord(a, k) ==
    IF k = 0 THEN a
    ELSE IF k = 31 THEN (IF a < 0 THEN 1 ELSE 0)
    ELSE IF a >= 0 THEN a \div (2^k)
    ELSE ((a - MinInt32) \div (2^k)) + 2^(31 - k)


\* the bitwise or of a sequence of 32-bit patterns
RECURSIVE OrAll(_)
OrAll(ws) == IF ws = <<>> THEN 0 ELSE Or32(ws[1], OrAll(Tail(ws)))

(* ----------------------------------------------------------------------- *)
(* Instruction memory: the host's byte image of the program                 *)
(* ----------------------------------------------------------------------- *)

\* The byte of the program image at address a.  The image is a sequence of
\* bytes; the hosts hand IF two hex characters per byte, and the GUI host
\* fills the rest of the array with '0' characters.
ByteAt(im, a) == IF a >= 0 /\ a < Len(im) THEN im[a + 1] ELSE 0

\* 16 bits at pc, little-endian; "0000" when both bytes are zero
get_instruction_16bit(im, pc) == ByteAt(im, pc + 1) * 256 + ByteAt(im, pc)

\* 32 bits at pc, little-endian; "00000000" when the first byte is zero
get_instruction(im, pc) ==
    IF ByteAt(im, pc) = 0 THEN 0
    ELSE Word(ByteAt(im, pc + 3) * 256 + ByteAt(im, pc + 2),
              ByteAt(im, pc + 1) * 256 + ByteAt(im, pc))

is_compressed_instruction(inst) == inst % 4 # 3

\* sign-extend the low `bits` bits of value (0 <= value < 2^bits, bits <= 21)
sign_extend(value, bits) ==
    IF (value \div (2^(bits - 1))) % 2 = 1 THEN value - 2^bits ELSE value

\* the 6-bit immediate {bit 12, bits 6:2} of C.ADDI, C.LI and C.ANDI, masked
\* to the 12 bits the expansion keeps
CImm6(c) == (IF Field(c, 12, 1) = 1 THEN 4064 ELSE 0) + Field(c, 2, 5)

\* the branch offset C.BEQZ and C.BNEZ assemble, after their `imm <<= 1`
CBranchImm(c) ==
    LET raw == Field(c, 12, 1) * 256 + Field(c, 6, 1) * 128 + Field(c, 5, 1) * 64
               + Field(c, 2, 1) * 32 + Field(c, 11, 1) * 16 + Field(c, 10, 1) * 8
               + Field(c, 4, 1) * 4 + Field(c, 3, 1) * 2
        ext == IF raw >= 256 THEN raw - 512 ELSE raw
    IN  ext * 2

\* the B-type word C.BEQZ / C.BNEZ return for funct3 f3 of the branch
CBranchWord(c, f3) ==
    LET imm  == CBranchImm(c)
        rs1p == 8 + Field(c, 7, 3)
    IN  OrAll(<< 99, f3 * 4096, rs1p * 32768,
                 Field(imm, 11, 1) * 32768,
                 Field(imm, 1, 4) * 256,
                 Shl(Field(imm, 5, 5), 25),
                 Field(imm, 10, 1) * 128 >>)

\* the J-type word C.JAL / C.J return for link register rd and offset imm
\* (imm already shifted left by one); (imm & 0x100000) << 31 leaves no bit
CJumpWord(rd, imm) ==
    OrAll(<< 111, rd * 128,
             Shl(Field(imm, 1, 10), 21),
             Shl(Field(imm, 11, 1), 23),
             Shl(Field(imm, 12, 8), 24) >>)

\* the S-type word C.SW / C.SWSP return
CStoreWord(rs1, rs2, imm) ==
    35 + 2 * 4096 + rs1 * 32768 + rs2 * 1048576
       + Shl(Field(imm, 5, 7), 25) + Field(imm, 0, 5) * 128

\* a selection of C.SUB, C.XOR, C.OR and C.AND by bits 6:5, bit 12 being 0
CArithWord_by_funct(c, base) ==
    IF Field(c, 12, 1) = 1 THEN 0
    ELSE IF Field(c, 5, 2) = 0 THEN base + 1073741824
    ELSE IF Field(c, 5, 2) = 1 THEN base + 4 * 4096
    ELSE IF Field(c, 5, 2) = 2 THEN base + 6 * 4096
    ELSE base + 7 * 4096

\* the R-type word returned for funct3 = 4, funct2 = 3 in quadrant 1; base
\* holds the opcode and the three register fields
CArithWord(c, base) ==
    IF Field(c, 12, 1) = 0 THEN base + 1073741824      \* C.SUB
    ELSE IF Field(c, 6, 1) = 1 THEN base + 6 * 4096    \* C.OR
    ELSE IF Field(c, 8, 1) = 0 THEN base + 7 * 4096    \* C.AND
    ELSE base + 4 * 4096                               \* C.XOR

expand_compressed_instruction(c) ==
    LET op     == c % 4
        funct3 == Field(c, 13, 3)
        rd_rs1 == Field(c, 7, 5)
        rs2    == Field(c, 2, 5)
        rdp2   == 8 + Field(c, 2, 3)       \* register in bits 4:2
        rdp7   == 8 + Field(c, 7, 3)       \* register in bits 9:7
        lwimm  == (Field(c, 10, 3) * 8 + Field(c, 6, 1) * 64 + Field(c, 5, 1) * 4) * 4
    IN
    IF op = 0 THEN
        IF funct3 = 0 THEN
            LET imm == Field(c, 7, 4) * 64 + Field(c, 11, 2) * 16
                       + Field(c, 5, 1) * 8 + Field(c, 6, 1) * 4
            IN  IF imm = 0 THEN 0
                ELSE 19 + rdp2 * 128 + 2 * 32768 + Shl((imm * 4) % 4096, 20)
        ELSE IF funct3 = 2 THEN
            3 + rdp2 * 128 + 2 * 4096 + rdp7 * 32768 + Shl(lwimm % 4096, 20)
        ELSE IF funct3 = 6 THEN
            CStoreWord(rdp7, rdp2, lwimm)
        ELSE 0
    ELSE IF op = 1 THEN
        IF funct3 = 0 THEN
            IF rd_rs1 = 0 THEN 0
            ELSE 19 + rd_rs1 * 128 + rd_rs1 * 32768 + Shl(CImm6(c), 20)
        ELSE IF funct3 = 1 THEN
            LET b10 == Field(c, 10, 1)
                b12 == Field(c, 12, 1)
                low == b10 * 256 + b10 * 128 + b12 * (64 + 32 + 16 + 8 + 4 + 2)
                       + Field(c, 5, 1)
                imm == (IF b12 = 1 THEN low - 4096 ELSE low) * 2
            IN  CJumpWord(1, imm)
        ELSE IF funct3 = 2 THEN
            IF rd_rs1 = 0 THEN 0
            ELSE 19 + rd_rs1 * 128 + Shl(CImm6(c), 20)
        ELSE IF funct3 = 3 THEN
            IF rd_rs1 = 2 THEN
                LET raw == Field(c, 12, 1) * 512 + Field(c, 4, 1) * 256
                           + Field(c, 3, 1) * 128 + Field(c, 6, 1) * 64
                           + Field(c, 5, 1) * 32 + Field(c, 2, 1) * 16
                IN  IF raw = 0 THEN 0
                    ELSE 19 + 2 * 128 + 2 * 32768 + Shl((raw * 16) % 4096, 20)
            ELSE
                IF rd_rs1 = 0 THEN 0
                ELSE LET k == IF Field(c, 12, 1) = 1 THEN 255 ELSE Field(c, 2, 5)
                     IN  55 + rd_rs1 * 128 + Shl(k, 24)
        ELSE IF funct3 = 4 THEN
            LET funct2 == Field(c, 10, 2)
                shamt  == Field(c, 2, 5)
            IN  IF funct2 = 0 THEN
                    IF shamt = 0 THEN 0
                    ELSE 19 + rdp7 * 128 + 5 * 4096 + rdp7 * 32768 + shamt * 1048576
                ELSE IF funct2 = 1 THEN
                    IF shamt = 0 THEN 0
                    ELSE 19 + rdp7 * 128 + 5 * 4096 + 1073741824 + rdp7 * 32768
                         + shamt * 1048576
                ELSE IF funct2 = 2 THEN
                    19 + rdp7 * 128 + 7 * 4096 + rdp7 * 32768 + Shl(CImm6(c), 20)
                ELSE CArithWord(c, 51 + rdp7 * 128 + rdp7 * 32768 + rdp2 * 1048576)
        ELSE IF funct3 = 5 THEN
            LET raw == Field(c, 12, 1) * 1024 + Field(c, 5, 6) * 16
                       + Field(c, 1, 4) + Field(c, 11, 1) * 2048
                imm == (IF raw >= 2048 THEN raw - 4096 ELSE raw) * 2
            IN  CJumpWord(0, imm)
        ELSE IF funct3 = 6 THEN CBranchWord(c, 0)
        ELSE CBranchWord(c, 1)
    ELSE IF op = 2 THEN
        IF funct3 = 0 THEN
            IF rd_rs1 = 0 \/ rs2 = 0 THEN 0
            ELSE 19 + rd_rs1 * 128 + 4096 + rd_rs1 * 32768 + rs2 * 1048576
        ELSE IF funct3 = 2 THEN
            LET imm == (Field(c, 12, 1) * 32 + Field(c, 4, 3) * 4 + Field(c, 2, 2)) * 4
            IN  IF rd_rs1 = 0 THEN 0
                ELSE 3 + rd_rs1 * 128 + 2 * 4096 + 2 * 32768 + Shl(imm % 4096, 20)
        ELSE IF funct3 = 4 THEN
            IF rd_rs1 = 0 THEN 0
            ELSE IF rs2 = 0 THEN 103 + rd_rs1 * 32768                     \* C.JR
            ELSE 51 + rd_rs1 * 128 + rs2 * 1048576                         \* C.MV
        ELSE IF funct3 = 5 THEN
            IF rd_rs1 = 0 THEN 0
            ELSE IF rs2 = 0 THEN 103 + 128 + rd_rs1 * 32768               \* C.JALR
            ELSE 51 + rd_rs1 * 128 + rd_rs1 * 32768 + rs2 * 1048576        \* C.ADD
        ELSE IF funct3 = 6 THEN
            CStoreWord(2, rs2, (Field(c, 9, 4) * 4 + Field(c, 7, 2)) * 4)
        ELSE 0
    ELSE 0

(* ----------------------------------------------------------------------- *)
(* Decoding                                                                 *)
(* ----------------------------------------------------------------------- *)

generate_immediate(instruction, opcode) ==
    LET f3 == Field(instruction, 12, 3)
    IN  IF opcode = 19 THEN
            IF f3 = 1 \/ f3 = 5 THEN Field(instruction, 20, 5)
            ELSE sign_extend(Field(instruction, 20, 12), 12)
        ELSE IF opcode = 3 \/ opcode = 103 THEN
            sign_extend(Field(instruction, 20, 12), 12)
        ELSE IF opcode = 35 THEN
            sign_extend(Field(instruction, 25, 7) * 32 + Field(instruction, 7, 5), 12)
        ELSE IF opcode = 99 THEN
            sign_extend(Bit(instruction, 31) * 4096 + Field(instruction, 7, 1) * 2048
                        + Field(instruction, 25, 6) * 32 + Field(instruction, 8, 4) * 2, 13)
        ELSE IF opcode = 111 THEN
            sign_extend(Bit(instruction, 31) * 1048576 + Field(instruction, 21, 10) * 2
                        + Field(instruction, 20, 1) * 2048
                        + Field(instruction, 12, 8) * 4096, 21)
        ELSE IF opcode = 55 \/ opcode = 23 THEN
            instruction - (instruction % 4096)
        ELSE 0

\* the control signals decode_instruction starts from
NoControl ==
    [ok |-> TRUE, regWrite |-> FALSE, aluSrc |-> FALSE, branch |-> FALSE,
     memRe |-> FALSE, memWr |-> FALSE, memToReg |-> FALSE, upperIm |-> FALSE,
     aluOp |-> 0, memReadType |-> 0, memWriteType |-> 0,
     fpRegWrite |-> FALSE, fpRegRead1 |-> FALSE, fpRegRead2 |-> FALSE, fpOp |-> 0]

\* aluOp of an R-type instruction (opcode 0x33)
RTypeAluOp(funct3, funct7) ==
    IF funct7 = 1 THEN 96 + funct3
    ELSE IF funct3 = 0 /\ funct7 = 0 THEN 0
    ELSE IF funct3 = 0 /\ funct7 = 32 THEN 1
    ELSE IF funct3 = 6 /\ funct7 = 0 THEN 17
    ELSE IF funct3 = 4 /\ funct7 = 0 THEN 18
    ELSE IF funct3 = 1 /\ funct7 = 0 THEN 32
    ELSE IF funct3 = 5 /\ funct7 = 0 THEN 33
    ELSE IF funct3 = 5 /\ funct7 = 32 THEN 34
    ELSE IF funct3 = 2 /\ funct7 = 0 THEN 19
    ELSE IF funct3 = 3 /\ funct7 = 0 THEN 20
    ELSE IF funct3 = 7 /\ funct7 = 0 THEN 16
    ELSE 0

\* aluOp of an I-type instruction (opcode 0x13); -1 stands for the final
\* else branch, which clears regWrite
ITypeAluOp(funct3, funct7) ==
    IF funct3 = 0 THEN 0
    ELSE IF funct3 = 2 THEN 21
    ELSE IF funct3 = 3 THEN 22
    ELSE IF funct3 = 4 THEN 23
    ELSE IF funct3 = 6 THEN 24
    ELSE IF funct3 = 7 THEN 25
    ELSE IF funct3 = 1 /\ funct7 = 0 THEN 35
    ELSE IF funct3 = 5 /\ funct7 = 0 THEN 36
    ELSE IF funct3 = 5 /\ funct7 = 32 THEN 37
    ELSE -1

\* aluOp of a conditional branch (opcode 0x63)
BranchAluOp(funct3) ==
    IF funct3 = 0 THEN 48
    ELSE IF funct3 = 1 THEN 53
    ELSE IF funct3 = 2 THEN 48
    ELSE IF funct3 = 4 THEN 51
    ELSE IF funct3 = 5 THEN 49
    ELSE IF funct3 = 6 THEN 52
    ELSE IF funct3 = 7 THEN 50
    ELSE 0

\* decode_instruction: the fields of the word and the control signals; ok is
\* the function's return value
decode_instruction(instruction) ==
    LET opcode == Field(instruction, 0, 7)
        rd     == Field(instruction, 7, 5)
        funct3 == Field(instruction, 12, 3)
        rs1    == Field(instruction, 15, 5)
        rs2    == Field(instruction, 20, 5)
        funct7 == Field(instruction, 25, 7)
        flds   == [opcode |-> opcode, rd |-> rd, funct3 |-> funct3, rs1 |-> rs1,
                   rs2 |-> rs2, funct7 |-> funct7]
        ctl ==
          IF opcode = 51 THEN
              [NoControl EXCEPT !.regWrite = TRUE, !.aluOp = RTypeAluOp(funct3, funct7)]
          ELSE IF opcode = 19 THEN
              IF ITypeAluOp(funct3, funct7) = -1
              THEN [NoControl EXCEPT !.aluSrc = TRUE]
              ELSE [NoControl EXCEPT !.regWrite = TRUE, !.aluSrc = TRUE,
                                     !.aluOp = ITypeAluOp(funct3, funct7)]
          ELSE IF opcode = 3 THEN
              LET k == IF funct3 = 0 THEN 1 ELSE IF funct3 = 4 THEN 2
                       ELSE IF funct3 = 1 THEN 3 ELSE IF funct3 = 5 THEN 4
                       ELSE IF funct3 = 2 THEN 5 ELSE 0
              IN  [NoControl EXCEPT !.regWrite = TRUE, !.aluSrc = TRUE, !.memRe = TRUE,
                                    !.memToReg = TRUE,
                                    !.aluOp = IF k = 0 THEN 0 ELSE 63 + k,
                                    !.memReadType = k]
          ELSE IF opcode = 35 THEN
              LET k == IF funct3 = 0 THEN 1 ELSE IF funct3 = 1 THEN 2
                       ELSE IF funct3 = 2 THEN 3 ELSE 0
              IN  [NoControl EXCEPT !.aluSrc = TRUE, !.memWr = TRUE,
                                    !.aluOp = IF k = 0 THEN 0 ELSE 68 + k,
                                    !.memWriteType = k]
          ELSE IF opcode = 99 THEN
              [NoControl EXCEPT !.branch = TRUE, !.aluOp = BranchAluOp(funct3)]
          ELSE IF opcode = 103 \/ opcode = 111 THEN
              [NoControl EXCEPT !.regWrite = TRUE, !.aluSrc = TRUE, !.branch = TRUE]
          ELSE IF opcode = 55 THEN
              [NoControl EXCEPT !.regWrite = TRUE, !.aluSrc = TRUE, !.upperIm = TRUE,
                                !.aluOp = 15]
          ELSE IF opcode = 23 THEN
              [NoControl EXCEPT !.regWrite = TRUE, !.aluSrc = TRUE, !.upperIm = TRUE]
          ELSE IF opcode = 0 THEN
              [NoControl EXCEPT !.ok = FALSE]
          ELSE IF opcode = 7 THEN
              [NoControl EXCEPT !.fpRegWrite = TRUE, !.aluSrc = TRUE, !.memRe = TRUE,
                                !.memToReg = TRUE, !.aluOp = 68, !.memReadType = 6]
          ELSE IF opcode = 39 THEN
              [NoControl EXCEPT !.fpRegRead2 = TRUE, !.aluSrc = TRUE, !.memWr = TRUE,
                                !.aluOp = 71, !.memWriteType = 4]
          ELSE IF opcode = 83 THEN
              LET fp == [NoControl EXCEPT !.fpRegWrite = TRUE, !.fpRegRead1 = TRUE,
                                          !.fpRegRead2 = TRUE]
              IN  IF funct7 = 0 /\ funct3 = 0 THEN [fp EXCEPT !.fpOp = 112]
                  ELSE IF funct7 = 0 /\ funct3 = 4 THEN [fp EXCEPT !.fpOp = 113]
                  ELSE IF funct7 = 80 /\ funct3 \in {0, 1, 2}
                       THEN [fp EXCEPT !.fpOp = 124 + funct3, !.regWrite = TRUE]
                  ELSE IF funct7 = 112 /\ funct3 = 0
                       THEN [fp EXCEPT !.fpOp = 127, !.fpRegRead2 = FALSE,
                                       !.regWrite = TRUE]
                  ELSE fp
          ELSE NoControl
    IN  [f \in DOMAIN flds \cup DOMAIN ctl |->
            IF f \in DOMAIN flds THEN flds[f] ELSE ctl[f]]

(* ----------------------------------------------------------------------- *)
(* ALU                                                                      *)
(* ----------------------------------------------------------------------- *)

\* the four bytes of a 32-bit pattern, least significant first
Bytes(a) == << Field(a, 0, 8), Field(a, 8, 8), Field(a, 16, 8), Field(a, 24, 8) >>

\* the 64-bit product of two unsigned 32-bit patterns, as eight bytes
MulBytes(a, b) ==
    LET x == Bytes(a)
        y == Bytes(b)
        col(k) == LET terms == {i \in 1..4 : k + 2 - i \in 1..4}
                      sum[S \in SUBSET terms] ==
                          IF S = {} THEN 0
                          ELSE LET i == CHOOSE j \in S : TRUE
                               IN  x[i] * y[k + 2 - i] + sum[S \ {i}]
                  IN  sum[terms]
        carry[k \in 0..7] == IF k = 0 THEN col(0) ELSE col(k) + (carry[k - 1] \div 256)
    IN  [k \in 0..7 |-> carry[k] % 256]

WordOf(bs, k) == Word(bs[k + 3] * 256 + bs[k + 2], bs[k + 1] * 256 + bs[k])

MulLo(a, b)  == WordOf(MulBytes(a, b), 0)
MulHiU(a, b) == WordOf(MulBytes(a, b), 4)

\* a quotient rounded toward minus infinity on the magnitude of the divisor
FloorDiv(a, b) ==
    IF b = MinInt32 THEN (IF a = MinInt32 THEN 1 ELSE 0)
    ELSE IF b < 0 THEN -(a \div (-b)) ELSE a \div b


\* operand1 / operand2 and operand1 % operand2 of C++ (truncation towards
\* zero), for operand2 # 0 and not (INT32_MIN, -1)
TruncDiv(a, b) ==
    IF b = MinInt32 THEN (IF a = MinInt32 THEN 1 ELSE 0)
    ELSE LET nb == IF b < 0 THEN -b ELSE b
             fl == a \div nb
             t  == IF a < 0 /\ a % nb # 0 THEN fl + 1 ELSE fl
         IN  IF b < 0 THEN -t ELSE t

TruncRem(a, b) ==
    IF b = MinInt32 THEN (IF a = MinInt32 THEN 0 ELSE a)
    ELSE LET nb == IF b < 0 THEN -b ELSE b
             m  == a % nb
         IN  IF a < 0 /\ m # 0 THEN m - nb ELSE m

\* quotient and remainder of the unsigned patterns, b # 0
UDivRem(a, b) ==
    IF b < 0 THEN
        IF ULess(a, b) THEN [q |-> 0, r |-> a] ELSE [q |-> 1, r |-> Sub32(a, b)]
    ELSE IF a >= 0 THEN [q |-> a \div b, r |-> a % b]
    ELSE LET l  == Low31(a)
             r1 == (MaxInt32 % b) + 1          \* 2^31 = q1 * b + r1, r1 <= b
             q1 == MaxInt32 \div b
             r2 == l % b
             q2 == l \div b
             ex == IF r2 >= b - r1 THEN 1 ELSE 0
         IN  [q |-> Add32(Add32(q1, q2), ex),
              r |-> IF ex = 1 THEN r2 - (b - r1) ELSE r1 + r2]

\* operand1 >> shamt of a signed operand (arithmetic shift)
SraWord(a, k) ==
    IF k = 0 THEN a
    ELSE IF k = 31 THEN (IF a < 0 THEN -1 ELSE 0)
    ELSE a \div (2^k)

\* The values `~0U << 32` can take: the shift count equals the width, which
\* the language leaves undefined; hardware either masks the count (all ones)
\* or shifts every bit out (zero).
WideShiftOutcomes == {0, -1}

\* the result of ALU::execute.  wide is the value of the over-wide shift SRA /
\* SRAI perform on a negative operand with shamt 0.
ALU_result(operand1, operand2, aluOp, wide) ==
    IF aluOp \in {0, 64, 65, 66, 67, 68, 69, 70, 71} THEN Add32(operand1, operand2)
    ELSE IF aluOp = 1 THEN Sub32(operand1, operand2)
    ELSE IF aluOp \in {16, 25} THEN And32(operand1, operand2)
    ELSE IF aluOp \in {17, 24} THEN Or32(operand1, operand2)
    ELSE IF aluOp \in {18, 23} THEN Xor32(operand1, operand2)
    ELSE IF aluOp \in {19, 21} THEN (IF operand1 < operand2 THEN 1 ELSE 0)
    ELSE IF aluOp \in {20, 22} THEN (IF ULess(operand1, operand2) THEN 1 ELSE 0)
    ELSE IF aluOp \in {32, 35} THEN ShlWord(operand1, operand2 % 32)
    ELSE IF aluOp \in {33, 36} THEN ShrWord(operand1, operand2 % 32)
    ELSE IF aluOp \in {34, 37} THEN
        IF operand1 < 0 /\ operand2 % 32 = 0 THEN Or32(operand1, wide)
        ELSE SraWord(operand1, operand2 % 32)
    ELSE IF aluOp \in {48, 49, 50, 51, 52, 53} THEN Sub32(operand1, operand2)
    ELSE IF aluOp = 15 THEN operand1
    ELSE IF aluOp = 96 THEN MulLo(operand1, operand2)
    ELSE IF aluOp = 97 THEN
        Sub32(Sub32(MulHiU(operand1, operand2),
                    IF operand1 < 0 THEN operand2 ELSE 0),
              IF operand2 < 0 THEN operand1 ELSE 0)
    ELSE IF aluOp = 98 THEN
        Sub32(MulHiU(operand1, operand2), IF operand1 < 0 THEN operand2 ELSE 0)
    ELSE IF aluOp = 99 THEN MulHiU(operand1, operand2)
    ELSE IF aluOp = 100 THEN
        IF operand2 = 0 THEN -1
        ELSE IF operand1 = MinInt32 /\ operand2 = -1 THEN MinInt32
        ELSE TruncDiv(operand1, operand2)
    ELSE IF aluOp = 101 THEN
        IF operand2 = 0 THEN -1 ELSE UDivRem(operand1, operand2).q
    ELSE IF aluOp = 102 THEN
        IF operand2 = 0 THEN operand1
        ELSE IF operand1 = MinInt32 /\ operand2 = -1 THEN 0
        ELSE TruncRem(operand1, operand2)
    ELSE IF aluOp = 103 THEN
        IF operand2 = 0 THEN operand1 ELSE UDivRem(operand1, operand2).r
    ELSE 0

\* the zero flag ALU::execute leaves beside its result
ALU_flag(result, operand1, operand2, aluOp, folded) ==
    [result |-> result,
     zero_flag |-> IF aluOp = 48 \/ aluOp = 53 THEN result = 0
                   ELSE IF aluOp = 49
                        THEN (IF folded THEN operand1 >= operand2 ELSE result >= 0)
                   ELSE IF aluOp = 51
                        THEN (IF folded THEN operand1 < operand2 ELSE result < 0)
                   ELSE IF aluOp = 50 THEN ~ULess(operand1, operand2)
                   ELSE IF aluOp = 52 THEN ULess(operand1, operand2)
                   ELSE result = 0]

\* ALU::execute: the result and the zero flag
ALU_execute(operand1, operand2, aluOp, wide, folded) ==
    ALU_flag(ALU_result(operand1, operand2, aluOp, wide), operand1, operand2, aluOp,
             folded)

(* ----------------------------------------------------------------------- *)
(* Data memory (SimpleRAM behind the CPU's own address check)               *)
(* ----------------------------------------------------------------------- *)

MEMORY_SIZE == 4096
RamSize == 65536

\* The RAM is a function from the addresses holding a non-zero byte to that
\* byte; every other byte of the device is zero.
MemByte(mem, a) == IF a \in DOMAIN mem THEN mem[a] ELSE 0

StoreByte(mem, a, v) ==
    IF v = 0 THEN [x \in DOMAIN mem \ {a} |-> mem[x]]
    ELSE [x \in DOMAIN mem \cup {a} |-> IF x = a THEN v ELSE mem[x]]

\* AccessSize of a read type / of a write type; 0 stands for `default: return`
ReadBytes(type)  == IF type \in {1, 2} THEN 1 ELSE IF type \in {3, 4} THEN 2
                    ELSE IF type = 5 THEN 4 ELSE 0
WriteBytes(type) == IF type = 1 THEN 1 ELSE IF type = 2 THEN 2
                    ELSE IF type = 3 THEN 4 ELSE 0

\* a check that tests the range and the alignment of words only
check_address_words(address, bytes) ==
    /\ address >= 0 /\ address < MEMORY_SIZE
    /\ ~(bytes = 4 /\ address % 4 # 0)

\* a check that tests the range and not the alignment
check_address_in_range(address, bytes) ==
    address >= 0 /\ address < MEMORY_SIZE

\* address is the unsigned reading of a 32-bit pattern: a negative pattern is
\* at least 2^31
check_address_alignment(address, bytes) ==
    /\ address >= 0 /\ address < MEMORY_SIZE
    /\ ~(bytes = 2 /\ address % 2 # 0)
    /\ ~(bytes = 4 /\ address % 4 # 0)

\* SimpleRAM::load: ok and the little-endian value
RamLoad(mem, addr, size) ==
    IF addr < 0 \/ addr + size > RamSize THEN [ok |-> FALSE, data |-> 0]
    ELSE [ok |-> TRUE,
          data |-> IF size = 1 THEN MemByte(mem, addr)
                   ELSE IF size = 2 THEN MemByte(mem, addr + 1) * 256 + MemByte(mem, addr)
                   ELSE Word(MemByte(mem, addr + 3) * 256 + MemByte(mem, addr + 2),
                             MemByte(mem, addr + 1) * 256 + MemByte(mem, addr))]

\* SimpleRAM::store: the memory after the store (unchanged when out of range)
RamStore(mem, addr, data, size) ==
    IF addr < 0 \/ addr + size > RamSize THEN mem
    ELSE LET m1 == StoreByte(mem, addr, Field(data, 0, 8))
             m2 == IF size >= 2 THEN StoreByte(m1, addr + 1, Field(data, 8, 8)) ELSE m1
             m3 == IF size = 4 THEN StoreByte(m2, addr + 2, Field(data, 16, 8)) ELSE m2
         IN  IF size = 4 THEN StoreByte(m3, addr + 3, Field(data, 24, 8)) ELSE m3

\* SimpleRAM::store's return value
RamStoreOk(addr, size) == ~(addr < 0 \/ addr + size > RamSize)

(* ----------------------------------------------------------------------- *)
(* Caches (write-through, write-allocate) over the RAM                      *)
(* ----------------------------------------------------------------------- *)

\* A cache is its geometry, its data array and tag array (the entries that
\* differ from 0), the set of indices whose valid bit is set, one LRU list per
\* set (front = MRU) and its two counters.  The fully associative cache is
\* one set of numLines_ ways; the direct-mapped cache is numLines_ sets of one
\* way and keeps no LRU list.  The kind "none" stands for a CPU wired straight
\* to the RAM.
NewCache(kind, totalSizeBytes, lineSizeBytes, associativity) ==
    [kind |-> kind, size_ |-> totalSizeBytes, lineSize_ |-> lineSizeBytes,
     associativity_ |-> associativity,
     numSets_ |-> totalSizeBytes \div (lineSizeBytes * associativity),
     numLines_ |-> totalSizeBytes \div lineSizeBytes,
     data_ |-> << >>, tags_ |-> << >>, valids_ |-> {},
     lruLists_ |-> IF kind = "DirectMapped" THEN << >>
                   ELSE [set \in 0..(totalSizeBytes \div (lineSizeBytes * associativity)) - 1
                            |-> [i \in 1..associativity |-> i - 1]],
     hits_ |-> 0, misses_ |-> 0]

NoCache == NewCache("none", 0, 1, 1)

DirectMappedCache(totalSizeBytes, lineSizeBytes) ==
    NewCache("DirectMapped", totalSizeBytes, lineSizeBytes, 1)

FullyAssociativeCache(totalSizeBytes, lineSizeBytes) ==
    NewCache("FullyAssociative", totalSizeBytes, lineSizeBytes,
             totalSizeBytes \div lineSizeBytes)

SetAssociativeCache(totalSizeBytes, lineSizeBytes, associativity) ==
    NewCache("SetAssociative", totalSizeBytes, lineSizeBytes, associativity)

\* a decode that takes the set from the low bits of the byte address
decode_byte_set(c, addr) ==
    [lineBase |-> addr - (addr % c.lineSize_),
     set |-> addr % c.numSets_,
     tag |-> IF c.kind = "SetAssociative"
             THEN (addr \div c.lineSize_) \div c.numSets_
             ELSE addr \div c.lineSize_]

\* decode: the line base, the set (the line index of the direct-mapped cache)
\* and the tag of an address; only the set-associative cache strips the set
\* bits from the tag
decode(c, addr) ==
    [lineBase |-> addr - (addr % c.lineSize_),
     set |-> (addr \div c.lineSize_) % c.numSets_,
     tag |-> IF c.kind = "SetAssociative"
             THEN (addr \div c.lineSize_) \div c.numSets_
             ELSE addr \div c.lineSize_]

TagAt(c, idx) == IF idx \in DOMAIN c.tags_ THEN c.tags_[idx] ELSE 0

\* a lookup that compares way 0 of the set only
HitWayFirst(c, set, tag) ==
    IF set * c.associativity_ \in c.valids_ /\ TagAt(c, set * c.associativity_) = tag
    THEN 0 ELSE -1

\* the first way of the set that is valid with the tag, or -1
HitWay(c, set, tag) ==
    LET ways == { w \in 0..c.associativity_ - 1 :
                     /\ set * c.associativity_ + w \in c.valids_
                     /\ TagAt(c, set * c.associativity_ + w) = tag }
    IN  IF ways = {} THEN -1 ELSE CHOOSE w \in ways : \A v \in ways : w <= v

\* list.remove(way); list.push_back(way)
MoveToBack(list, way) ==
    SelectSeq(list, LAMBDA x : x # way) \o << way >>

\* list.remove(way); list.push_front(way)
MoveToFront(list, way) ==
    << way >> \o SelectSeq(list, LAMBDA x : x # way)

updateLRU(c, set, way) ==
    IF c.kind = "DirectMapped" THEN c
    ELSE [c EXCEPT !.lruLists_[set] = MoveToFront(@, way)]

\* getLRUVictim: the way at the back of the set's list, moved to the front
LRUWay(c, set) == c.lruLists_[set][Len(c.lruLists_[set])]

getLRUVictim(c, set) ==
    [c EXCEPT !.lruLists_[set] = << LRUWay(c, set) >> \o SubSeq(@, 1, Len(@) - 1)]

\* unpackLE of one word into the data array at index k
UnpackWord(data, k, v) ==
    StoreByte(StoreByte(StoreByte(StoreByte(data, k, Field(v, 0, 8)),
                                  k + 1, Field(v, 8, 8)),
                        k + 2, Field(v, 16, 8)),
              k + 3, Field(v, 24, 8))

\* fillLine from word i on: a failing sub-load returns at once, leaving the
\* words copied so far in the data array
RECURSIVE FillWords(_, _, _, _, _, _)
FillWords(c, ram, idx, tag, lineBase, i) ==
    IF i >= c.lineSize_ THEN
        [ok |-> TRUE,
         cache |-> updateLRU([c EXCEPT !.tags_ = StoreByte(@, idx, tag),
                                       !.valids_ = @ \cup {idx}],
                             idx \div c.associativity_, idx % c.associativity_)]
    ELSE IF ~RamLoad(ram, lineBase + i, 4).ok THEN [ok |-> FALSE, cache |-> c]
    ELSE FillWords([c EXCEPT !.data_ = UnpackWord(@, idx * c.lineSize_ + i,
                                                  RamLoad(ram, lineBase + i, 4).data)],
                   ram, idx, tag, lineBase, i + 4)

fillLine(c, ram, idx, tag, lineBase) == FillWords(c, ram, idx, tag, lineBase, 0)

\* packLE of size bytes of the data array from index k
readFromLine(c, k, size) ==
    IF size = 1 THEN MemByte(c.data_, k)
    ELSE IF size = 2 THEN MemByte(c.data_, k + 1) * 256 + MemByte(c.data_, k)
    ELSE Word(MemByte(c.data_, k + 3) * 256 + MemByte(c.data_, k + 2),
              MemByte(c.data_, k + 1) * 256 + MemByte(c.data_, k))

\* unpackLE of size bytes into the data array at index k
writeToLine(c, k, value, size) ==
    [c EXCEPT !.data_ =
        IF size = 1 THEN StoreByte(@, k, Field(value, 0, 8))
        ELSE IF size = 2 THEN StoreByte(StoreByte(@, k, Field(value, 0, 8)),
                                        k + 1, Field(value, 8, 8))
        ELSE UnpackWord(@, k, value)]

\* a device: the cache (or NoCache) and the RAM below it
NewDevice(cache) == [cache |-> cache, ram |-> << >>]

\* load after a miss, once the victim is chosen and the line fill was tried
LoadFilled(ram, f, k, size) ==
    IF ~f.ok THEN [ok |-> FALSE, data |-> 0, dev |-> [cache |-> f.cache, ram |-> ram]]
    ELSE [ok |-> TRUE, data |-> readFromLine(f.cache, k, size),
          dev |-> [cache |-> f.cache, ram |-> ram]]

\* load of a cache: d is the decoded address, way the hit way or -1
LoadWay(c, ram, addr, size, d, way) ==
    IF way >= 0 THEN
        [ok |-> TRUE,
         data |-> readFromLine(c, (d.set * c.associativity_ + way) * c.lineSize_
                                  + (addr - d.lineBase), size),
         dev |-> [cache |-> updateLRU([c EXCEPT !.hits_ = @ + 1], d.set, way),
                  ram |-> ram]]
    ELSE IF c.kind = "DirectMapped" THEN
        LoadFilled(ram, fillLine([c EXCEPT !.misses_ = @ + 1], ram, d.set, d.tag,
                                 d.lineBase),
                   d.set * c.lineSize_ + (addr - d.lineBase), size)
    ELSE
        LoadFilled(ram,
                   fillLine(getLRUVictim([c EXCEPT !.misses_ = @ + 1], d.set), ram,
                            d.set * c.associativity_ + LRUWay(c, d.set), d.tag,
                            d.lineBase),
                   (d.set * c.associativity_ + LRUWay(c, d.set)) * c.lineSize_
                       + (addr - d.lineBase), size)

\* a store that writes the RAM but not the cached line
StoreAround(c, ram, addr, data, size, k) ==
    [ok |-> RamStoreOk(addr, size),
     dev |-> [cache |-> c, ram |-> RamStore(ram, addr, data, size)]]

\* the write into the line and the write-through that end every store
StoreThrough(c, ram, addr, data, size, k) ==
    [ok |-> RamStoreOk(addr, size),
     dev |-> [cache |-> writeToLine(c, k, data, size),
              ram |-> RamStore(ram, addr, data, size)]]

\* store after a miss: the direct-mapped cache counts the miss only after a
\* successful fill, the associative caches count it before the fill
StoreFilled(ram, f, addr, data, size, k, countAfter) ==
    IF ~f.ok THEN [ok |-> FALSE, dev |-> [cache |-> f.cache, ram |-> ram]]
    ELSE StoreThrough(IF countAfter THEN [f.cache EXCEPT !.misses_ = @ + 1]
                      ELSE f.cache,
                      ram, addr, data, size, k)

StoreWay(c, ram, addr, data, size, d, way) ==
    IF way >= 0 THEN
        StoreThrough(updateLRU([c EXCEPT !.hits_ = @ + 1], d.set, way), ram, addr,
                     data, size,
                     (d.set * c.associativity_ + way) * c.lineSize_
                         + (addr - d.lineBase))
    ELSE IF c.kind = "DirectMapped" THEN
        StoreFilled(ram, fillLine(c, ram, d.set, d.tag, d.lineBase), addr, data, size,
                    d.set * c.lineSize_ + (addr - d.lineBase), TRUE)
    ELSE
        StoreFilled(ram,
                    fillLine(getLRUVictim([c EXCEPT !.misses_ = @ + 1], d.set), ram,
                             d.set * c.associativity_ + LRUWay(c, d.set), d.tag,
                             d.lineBase),
                    addr, data, size,
                    (d.set * c.associativity_ + LRUWay(c, d.set)) * c.lineSize_
                        + (addr - d.lineBase), FALSE)

\* MemoryDevice::load of the device the CPU is wired to
DeviceLoad(dev, addr, size) ==
    IF dev.cache.kind = "none"
    THEN [ok |-> RamLoad(dev.ram, addr, size).ok,
          data |-> RamLoad(dev.ram, addr, size).data, dev |-> dev]
    ELSE LoadWay(dev.cache, dev.ram, addr, size, decode(dev.cache, addr),
                 HitWay(dev.cache, decode(dev.cache, addr).set, decode(dev.cache, addr).tag))

\* MemoryDevice::store of the device the CPU is wired to
DeviceStore(dev, addr, data, size) ==
    IF dev.cache.kind = "none"
    THEN [ok |-> RamStoreOk(addr, size),
          dev |-> [dev EXCEPT !.ram = RamStore(@, addr, data, size)]]
    ELSE StoreWay(dev.cache, dev.ram, addr, data, size, decode(dev.cache, addr),
                  HitWay(dev.cache, decode(dev.cache, addr).set, decode(dev.cache, addr).tag))

\* the value read_memory returns for the device's response to a read of type
ReadValue(r, type) ==
    IF ~r.ok THEN 0
    ELSE IF type = 1 THEN sign_extend(r.data % 256, 8)
    ELSE IF type = 2 THEN r.data % 256
    ELSE IF type = 3 THEN sign_extend(r.data % 65536, 16)
    ELSE IF type = 4 THEN r.data % 65536
    ELSE r.data

ReadDevice(r, type) == [value |-> ReadValue(r, type), dev |-> r.dev]

\* read_memory: the value returned and the device after the call
read_memory(dev, address, type) ==
    IF ReadBytes(type) = 0 THEN [value |-> 0, dev |-> dev]
    ELSE IF ~check_address_alignment(address, ReadBytes(type))
    THEN [value |-> 0, dev |-> dev]
    ELSE ReadDevice(DeviceLoad(dev, address, ReadBytes(type)), type)

\* write_memory: the device after the call
write_memory(dev, address, value, type) ==
    IF WriteBytes(type) = 0 THEN dev
    ELSE IF ~check_address_alignment(address, WriteBytes(type)) THEN dev
    ELSE DeviceStore(dev, address, value, WriteBytes(type)).dev

(* ----------------------------------------------------------------------- *)
(* Branch predictors                                                        *)
(* ----------------------------------------------------------------------- *)

BimodalTableSize == 2048

HistoryBits == 12

\* A predictor is its scheme, its counter table (the entries that differ from
\* the initial "weakly not taken" value 1), its global history register and
\* its two statistics.  The tournament predictor holds a bimodal and a gshare
\* predictor and its selector table (entries that differ from the initial 1).
\* The scheme "none" stands for the null branch_predictor_ pointer.
NewScheme(kind, table_size, history_bits) ==
    [kind |-> kind, table_size_ |-> table_size, history_bits_ |-> history_bits,
     counters |-> << >>, ghr_ |-> 0, correct |-> 0, incorrect |-> 0]

\* the constructors, with the table size and the history length they are given
SizedPredictor(kind, table_size, history_bits) ==
    IF kind = "Tournament"
    THEN [kind |-> kind, table_size_ |-> table_size, selectors_ |-> << >>,
          bimodal_ |-> NewScheme("Bimodal", table_size, 0),
          gshare_ |-> NewScheme("GShare", table_size, history_bits),
          correct |-> 0, incorrect |-> 0]
    ELSE NewScheme(kind, table_size, IF kind = "GShare" THEN history_bits ELSE 0)

\* createBranchPredictor
NewPredictor(kind) == SizedPredictor(kind, BimodalTableSize, HistoryBits)

\* reset: the predictor as its constructor left it
reset_kept(bp) == bp

reset(bp) ==
    IF bp.kind = "Tournament"
    THEN SizedPredictor(bp.kind, bp.table_size_, bp.gshare_.history_bits_)
    ELSE SizedPredictor(bp.kind, bp.table_size_, bp.history_bits_)

\* BimodalPredictor::hashPC and TournamentPredictor::hashPC
hashPC(bp, pc) == And32(Field(pc, 2, 30), bp.table_size_ - 1)

\* GSharePredictor::hashPC
GShare_hashPC(bp, pc) == And32(Xor32(hashPC(bp, pc), bp.ghr_), bp.table_size_ - 1)

\* the table entry the scheme reads and trains for a branch at pc
IndexOf(bp, pc) ==
    IF bp.kind = "GShare" THEN GShare_hashPC(bp, pc) ELSE hashPC(bp, pc)

Counter(bp, index) ==
    IF index \in DOMAIN bp.counters THEN bp.counters[index] ELSE 1

SetCounter(bp, index, v) ==
    IF v = 1 THEN [x \in DOMAIN bp.counters \ {index} |-> bp.counters[x]]
    ELSE [x \in DOMAIN bp.counters \cup {index} |->
             IF x = index THEN v ELSE bp.counters[x]]

Selector(bp, index) ==
    IF index \in DOMAIN bp.selectors_ THEN bp.selectors_[index] ELSE 1

SetSelector(bp, index, v) ==
    IF v = 1 THEN [x \in DOMAIN bp.selectors_ \ {index} |-> bp.selectors_[x]]
    ELSE [x \in DOMAIN bp.selectors_ \cup {index} |->
             IF x = index THEN v ELSE bp.selectors_[x]]

\* the direction a predictor other than the tournament predicts
SchemeTaken(bp, pc) ==
    IF bp.kind = "AlwaysNotTaken" THEN FALSE
    ELSE IF bp.kind = "AlwaysTaken" THEN TRUE
    ELSE Counter(bp, IndexOf(bp, pc)) >= 2

\* the direction a predictor predicts for a branch at pc
PredictedTaken(bp, pc) ==
    IF bp.kind = "Tournament"
    THEN IF Selector(bp, hashPC(bp, pc)) >= 2 THEN SchemeTaken(bp.gshare_, pc)
         ELSE SchemeTaken(bp.bimodal_, pc)
    ELSE SchemeTaken(bp, pc)

\* BranchPredictorScheme::predict
predict(bp, pc, target) ==
    IF bp.kind = "AlwaysNotTaken"
    THEN [predicted_taken |-> FALSE, predicted_target |-> Add32(pc, 4)]
    ELSE IF bp.kind = "AlwaysTaken"
    THEN [predicted_taken |-> TRUE, predicted_target |-> target]
    ELSE LET taken == PredictedTaken(bp, pc)
         IN  [predicted_taken |-> taken,
              predicted_target |-> IF taken THEN target ELSE Add32(pc, 4)]

\* a counter step that wraps around instead of saturating
StepWrapping(c, up) == IF up THEN (c + 1) % 4 ELSE (c + 3) % 4

\* one step of a 2-bit saturating counter
Step(c, up) ==
    IF up THEN (IF c < 3 THEN c + 1 ELSE c) ELSE (IF c > 0 THEN c - 1 ELSE c)

\* a history register that shifts in the complement of the outcome
ShiftHistoryInverted(ghr, taken, history_bits) ==
    (2 * ghr + (IF taken THEN 0 ELSE 1)) % (2 ^ history_bits)

\* the global history register after an outcome is shifted in
ShiftHistory(ghr, taken, history_bits) ==
    (2 * ghr + (IF taken THEN 1 ELSE 0)) % (2 ^ history_bits)

\* an update that trains the table but counts every prediction as correct
Scheme_update_trusting(bp, pc, target, taken) ==
    [bp EXCEPT !.correct   = @ + 1,
               !.counters  = IF bp.kind \in {"Bimodal", "GShare"}
                             THEN SetCounter(bp, IndexOf(bp, pc),
                                             Step(Counter(bp, IndexOf(bp, pc)), taken))
                             ELSE @,
               !.ghr_      = IF bp.kind = "GShare"
                             THEN ShiftHistory(@, taken, bp.history_bits_)
                             ELSE @]

\* update of AlwaysNotTaken, AlwaysTaken, Bimodal and GShare
Scheme_update(bp, pc, target, taken) ==
    [bp EXCEPT !.correct   = IF SchemeTaken(bp, pc) = taken THEN @ + 1 ELSE @,
               !.incorrect = IF SchemeTaken(bp, pc) = taken THEN @ ELSE @ + 1,
               !.counters  = IF bp.kind \in {"Bimodal", "GShare"}
                             THEN SetCounter(bp, IndexOf(bp, pc),
                                             Step(Counter(bp, IndexOf(bp, pc)), taken))
                             ELSE @,
               !.ghr_      = IF bp.kind = "GShare" THEN ShiftHistory(@, taken, bp.history_bits_)
                             ELSE @]

\* a selector that moves toward gshare whenever gshare was right
ChooseGShareWhenRight(sel, bimodal_correct, gshare_correct) ==
    IF gshare_correct THEN Step(sel, TRUE)
    ELSE IF bimodal_correct THEN Step(sel, FALSE) ELSE sel

\* the selector after an update, given which sub-predictions were right
Choose(sel, bimodal_correct, gshare_correct) ==
    IF bimodal_correct /\ ~gshare_correct THEN Step(sel, FALSE)
    ELSE IF ~bimodal_correct /\ gshare_correct THEN Step(sel, TRUE)
    ELSE sel

\* TournamentPredictor::update
Tournament_update(bp, pc, target, taken) ==
    [bp EXCEPT !.bimodal_   = Scheme_update(@, pc, target, taken),
               !.gshare_    = Scheme_update(@, pc, target, taken),
               !.selectors_ = SetSelector(bp, hashPC(bp, pc),
                                  Choose(Selector(bp, hashPC(bp, pc)),
                                         SchemeTaken(bp.bimodal_, pc) = taken,
                                         SchemeTaken(bp.gshare_, pc) = taken)),
               !.correct    = IF PredictedTaken(bp, pc) = taken THEN @ + 1 ELSE @,
               !.incorrect  = IF PredictedTaken(bp, pc) = taken THEN @ ELSE @ + 1]

\* an update that counts the prediction but trains no counter
update_untrained(bp, pc, target, taken) ==
    [bp EXCEPT !.correct   = IF PredictedTaken(bp, pc) = taken THEN @ + 1 ELSE @,
               !.incorrect = IF PredictedTaken(bp, pc) = taken THEN @ ELSE @ + 1]

\* BranchPredictorScheme::update: the predictor after the update
update(bp, pc, target, taken) ==
    IF bp.kind = "Tournament" THEN Tournament_update(bp, pc, target, taken)
    ELSE Scheme_update(bp, pc, target, taken)

(* ----------------------------------------------------------------------- *)
(* The processor                                                            *)
(* ----------------------------------------------------------------------- *)

\* Display-only latch fields (the instruction word and the compressed halfword
\* carried past ID) are left out.  A float is kept as its 32-bit pattern.

IF_ID_Register ==
    [instruction |-> 0, pc |-> 0, valid |-> FALSE, is_compressed |-> FALSE,
     compressed_inst |-> 0]

ID_EX_Register ==
    [regWrite |-> FALSE, aluSrc |-> FALSE, branch |-> FALSE, memRe |-> FALSE,
     memWr |-> FALSE, memToReg |-> FALSE, upperIm |-> FALSE, aluOp |-> 0,
     memReadType |-> 0, memWriteType |-> 0,
     fpRegWrite |-> FALSE, fpRegRead1 |-> FALSE, fpRegRead2 |-> FALSE, fpOp |-> 0,
     opcode |-> 0, rd |-> 0, funct3 |-> 0, rs1 |-> 0, rs2 |-> 0, funct7 |-> 0,
     rs1_data |-> 0, rs2_data |-> 0, immediate |-> 0,
     rs1_fp_data |-> 0, rs2_fp_data |-> 0,
     pc |-> 0, is_compressed |-> FALSE, valid |-> FALSE]

EX_MEM_Register ==
    [regWrite |-> FALSE, memRe |-> FALSE, memWr |-> FALSE, memToReg |-> FALSE,
     memReadType |-> 0, memWriteType |-> 0, fpRegWrite |-> FALSE,
     fp_result |-> 0, alu_result |-> 0, rs2_data |-> 0, rs2_fp_data |-> 0,
     rd |-> 0, pc |-> 0,
     is_compressed |-> FALSE, valid |-> FALSE]

MEM_WB_Register ==
    [regWrite |-> FALSE, memToReg |-> FALSE, fpRegWrite |-> FALSE,
     fp_result |-> 0, mem_fp_data |-> 0,
     alu_result |-> 0, mem_data |-> 0, rd |-> 0, pc |-> 0,
     is_compressed |-> FALSE, valid |-> FALSE]

CPUStatistics ==
    [total_instructions |-> 0, r_type_count |-> 0, i_type_count |-> 0,
     load_count |-> 0, store_count |-> 0, branch_count |-> 0, jump_count |-> 0,
     lui_auipc_count |-> 0, stall_count |-> 0, flush_count |-> 0,
     branch_taken_count |-> 0, branch_not_taken_count |-> 0,
     total_cycles |-> 0, instructions_retired |-> 0,
     memory_reads |-> 0, memory_writes |-> 0, branch_mispredictions |-> 0]

\* What execute_stage computed in the current tick (its local variables), and
\* whether ID asserted a flush: these are overwritten or consumed before the
\* tick ends, so the cycle records them.
NoExecute ==
    [ran |-> FALSE, id |-> ID_EX_Register, operand1 |-> 0, operand2 |-> 0,
     forwarded_rs2_data |-> 0, should_branch |-> FALSE, mispredicted |-> FALSE,
     flush |-> FALSE, pc |-> 0]

\* the processor right after CPU::CPU(), with a RAM and a predictor attached
\* The tracing structures of the processor: the flag, the pipeline trace, the
\* memory and register histories, the dependency list and the maps from the PC
\* of an instruction that passed WB to its cycle and its destination.  The
\* disassembly strings of the entries are left out.
NewTracing ==
    [enable_tracing_ |-> FALSE, pipeline_trace_ |-> << >>,
     memory_access_history_ |-> << >>, register_history_ |-> << >>,
     previous_register_values_ |-> [i \in 0..31 |-> 0],
     instruction_dependencies_ |-> << >>,
     pc_to_cycle_map_ |-> << >>, pc_to_rd_map_ |-> << >>]

\* map[key] = value of a std::map held as a function
MapPut(map, key, value) ==
    [x \in DOMAIN map \cup {key} |-> IF x = key THEN value ELSE map[x]]

\* track_register_change, called with tracing enabled
track_register_change(t, cycle, reg, old_value, new_value, pc) ==
    IF reg = 0 THEN t
    ELSE [t EXCEPT !.register_history_ =
                       Append(@, [cycle |-> cycle, reg |-> reg,
                                  old_value |-> old_value,
                                  new_value |-> new_value, pc |-> pc])]

\* track_memory_access, called with tracing enabled
track_memory_access(t, cycle, address, is_write, value, pc, cache_hit) ==
    [t EXCEPT !.memory_access_history_ =
                  Append(@, [cycle |-> cycle, address |-> address,
                             is_write |-> is_write, value |-> value, pc |-> pc,
                             cache_hit |-> cache_hit])]

\* the RAW dependencies of a consumer at pc on the producers recorded for
\* register rs, in the order of the producers' PCs
RECURSIVE Dependencies(_, _, _, _, _)
Dependencies(t, producers, cycle, pc, rs) ==
    IF producers = {} THEN << >>
    ELSE LET p == CHOOSE x \in producers : \A y \in producers : x <= y
             found == IF t.pc_to_rd_map_[p] = rs /\ p # pc
                         /\ cycle - t.pc_to_cycle_map_[p] <= 10
                      THEN << [producer_pc |-> p, consumer_pc |-> pc,
                               register |-> rs,
                               producer_cycle |-> t.pc_to_cycle_map_[p],
                               consumer_cycle |-> cycle] >>
                      ELSE << >>
         IN  found \o Dependencies(t, producers \ {p}, cycle, pc, rs)

\* track_instruction_dependencies, called with tracing enabled
track_instruction_dependencies(t, cycle, pc, rd, rs1, rs2) ==
    [t EXCEPT !.instruction_dependencies_ =
                  @ \o (IF rs1 # 0
                        THEN Dependencies(t, DOMAIN t.pc_to_rd_map_, cycle, pc, rs1)
                        ELSE << >>)
                    \o (IF rs2 # 0
                        THEN Dependencies(t, DOMAIN t.pc_to_rd_map_, cycle, pc, rs2)
                        ELSE << >>)]

NewCPU(bp) ==
    [PC |-> 0, registers |-> [i \in 0..31 |-> 0],
     registers_fp |-> [i \in 0..31 |-> 0],
     if_id |-> IF_ID_Register, id_ex |-> ID_EX_Register,
     ex_mem |-> EX_MEM_Register, mem_wb |-> MEM_WB_Register,
     ex_mem_prev |-> EX_MEM_Register, mem_wb_prev |-> MEM_WB_Register,
     pipeline_stall |-> FALSE, pipeline_flush |-> FALSE,
     branch_predicted_taken_ |-> FALSE, branch_predicted_target_ |-> 0,
     branch_pc_ |-> 0, stats_ |-> CPUStatistics,
     dmem_ |-> NewDevice(NoCache), branch_predictor_ |-> bp,
     ex |-> NoExecute, id_flush |-> FALSE, tracing |-> NewTracing]

\* a reset that leaves the two forwarding snapshots as they were
CPU_reset_keeping_snapshots(m) ==
    [m EXCEPT
        !.PC = 0,
        !.registers = [i \in 0..31 |-> 0],
        !.registers_fp = [i \in 0..31 |-> 0],
        !.pipeline_stall = FALSE,
        !.pipeline_flush = FALSE,
        !.branch_predicted_taken_ = FALSE,
        !.branch_predicted_target_ = 0,
        !.branch_pc_ = 0,
        !.branch_predictor_ = IF @.kind # "none" THEN reset(@) ELSE @,
        !.if_id = IF_ID_Register,
        !.id_ex = ID_EX_Register,
        !.ex_mem = EX_MEM_Register,
        !.mem_wb = MEM_WB_Register,
        !.tracing = [NewTracing EXCEPT !.enable_tracing_ = m.tracing.enable_tracing_],
        !.stats_ = CPUStatistics,
        !.ex = NoExecute,
        !.id_flush = FALSE]

\* CPU::reset: the data memory and enable_tracing_ are preserved; the
\* processor's maxPC, which it also clears, is the action's to set
CPU_reset(m) ==
    [m EXCEPT
        !.PC = 0,
        !.registers = [i \in 0..31 |-> 0],
        !.registers_fp = [i \in 0..31 |-> 0],
        !.pipeline_stall = FALSE,
        !.pipeline_flush = FALSE,
        !.branch_predicted_taken_ = FALSE,
        !.branch_predicted_target_ = 0,
        !.branch_pc_ = 0,
        !.branch_predictor_ = IF @.kind # "none" THEN reset(@) ELSE @,
        !.if_id = IF_ID_Register,
        !.id_ex = ID_EX_Register,
        !.ex_mem = EX_MEM_Register,
        !.mem_wb = MEM_WB_Register,
        !.ex_mem_prev = EX_MEM_Register,
        !.mem_wb_prev = MEM_WB_Register,
        !.tracing = [NewTracing EXCEPT !.enable_tracing_ = m.tracing.enable_tracing_],
        !.stats_ = CPUStatistics,
        !.ex = NoExecute,
        !.id_flush = FALSE]

\* what write_back_stage records when tracing is enabled
TraceWriteBack(t, wb, cycle, write, data) ==
    IF write
    THEN [track_register_change(t, cycle, wb.rd,
                                t.previous_register_values_[wb.rd], data, wb.pc)
             EXCEPT !.previous_register_values_ = [@ EXCEPT ![wb.rd] = data],
                    !.pc_to_cycle_map_ = MapPut(@, wb.pc, cycle),
                    !.pc_to_rd_map_ = MapPut(@, wb.pc, wb.rd)]
    ELSE IF ~wb.regWrite /\ ~wb.fpRegWrite
    THEN [t EXCEPT !.pc_to_cycle_map_ = MapPut(@, wb.pc, cycle)]
    ELSE t

\* a write-back whose tracing branch holds the only count of a register write
write_back_stage_counting_in_trace(m) ==
    LET wb == m.mem_wb IN
    IF ~wb.valid THEN m
    ELSE LET write == wb.regWrite /\ wb.rd # 0
             data  == IF wb.memToReg THEN wb.mem_data ELSE wb.alu_result
             fpw   == wb.fpRegWrite /\ wb.rd # 0
             n     == (IF write /\ m.tracing.enable_tracing_ THEN 1 ELSE 0)
                      + (IF fpw /\ ~wb.regWrite THEN 1 ELSE 0)
                      + (IF ~wb.regWrite /\ ~wb.fpRegWrite THEN 1 ELSE 0)
         IN  [m EXCEPT !.registers = IF write THEN [@ EXCEPT ![wb.rd] = data] ELSE @,
                       !.registers_fp =
                           IF fpw
                           THEN [@ EXCEPT ![wb.rd] = IF wb.memToReg THEN wb.mem_fp_data
                                                     ELSE wb.fp_result]
                           ELSE @,
                       !.stats_.instructions_retired = @ + n,
                       !.tracing = IF @.enable_tracing_
                                   THEN TraceWriteBack(@, wb, m.stats_.total_cycles,
                                                       write, data)
                                   ELSE @]

write_back_stage(m) ==
    LET wb == m.mem_wb IN
    IF ~wb.valid THEN m
    ELSE LET write == wb.regWrite /\ wb.rd # 0
             data  == IF wb.memToReg THEN wb.mem_data ELSE wb.alu_result
             fpw   == wb.fpRegWrite /\ wb.rd # 0
             n     == (IF write THEN 1 ELSE 0)
                      + (IF fpw /\ ~wb.regWrite THEN 1 ELSE 0)
                      + (IF ~wb.regWrite /\ ~wb.fpRegWrite THEN 1 ELSE 0)
         IN  [m EXCEPT !.registers = IF write THEN [@ EXCEPT ![wb.rd] = data] ELSE @,
                       !.registers_fp =
                           IF fpw
                           THEN [@ EXCEPT ![wb.rd] = IF wb.memToReg THEN wb.mem_fp_data
                                                     ELSE wb.fp_result]
                           ELSE @,
                       !.stats_.instructions_retired = @ + n,
                       !.tracing = IF @.enable_tracing_
                                   THEN TraceWriteBack(@, wb, m.stats_.total_cycles,
                                                       write, data)
                                   ELSE @]

\* memory_stage once the device answered: r is the loaded value (0 unless
\* the instruction is a load) and the device after the access
MemoryLatch(m, em, r) ==
    [m EXCEPT !.dmem_ = r.dev,
              !.stats_.memory_reads = IF em.memRe THEN @ + 1 ELSE @,
              !.stats_.memory_writes = IF ~em.memRe /\ em.memWr THEN @ + 1 ELSE @,
              !.mem_wb = [@ EXCEPT !.regWrite = em.regWrite,
                                   !.memToReg = em.memToReg,
                                   !.alu_result = em.alu_result,
                                   !.mem_data = r.value,
                                   !.rd = em.rd,
                                   !.pc = em.pc,
                                   !.is_compressed = em.is_compressed,
                                   !.valid = TRUE],
              !.tracing =
                  IF @.enable_tracing_ /\ (em.memRe \/ em.memWr)
                  THEN track_memory_access(@, m.stats_.total_cycles, em.alu_result,
                                           ~em.memRe,
                                           IF em.memRe THEN r.value ELSE em.rs2_data,
                                           em.pc,
                                           m.dmem_.cache.kind # "none"
                                               /\ r.dev.cache.hits_ > m.dmem_.cache.hits_)
                  ELSE @]

memory_stage(m) ==
    IF ~m.ex_mem.valid THEN [m EXCEPT !.mem_wb.valid = FALSE]
    ELSE IF m.ex_mem.memRe THEN
        MemoryLatch(m, m.ex_mem,
                    read_memory(m.dmem_, m.ex_mem.alu_result,
                                IF m.ex_mem.memReadType = 6 THEN 5
                                ELSE m.ex_mem.memReadType))
    ELSE IF m.ex_mem.memWr THEN
        MemoryLatch(m, m.ex_mem,
                    [value |-> 0,
                     dev |-> IF m.ex_mem.memWriteType = 4
                             THEN write_memory(m.dmem_, m.ex_mem.alu_result,
                                               m.ex_mem.rs2_fp_data, 3)
                             ELSE write_memory(m.dmem_, m.ex_mem.alu_result,
                                               m.ex_mem.rs2_data,
                                               m.ex_mem.memWriteType)])
    ELSE MemoryLatch(m, m.ex_mem, [value |-> 0, dev |-> m.dmem_])

\* an operand selection that also forwards to source index 0
ForwardedToZero(exp, wbp, rs, data) ==
    IF exp.regWrite /\ exp.rd = rs THEN exp.alu_result
    ELSE IF wbp.regWrite /\ wbp.rd = rs
         THEN (IF wbp.memToReg THEN wbp.mem_data ELSE wbp.alu_result)
    ELSE data

\* an operand selection without forwarding
ForwardedNever(exp, wbp, rs, data) == data

\* an operand selection that never looks at the EX/MEM snapshot
ForwardedFromWB(exp, wbp, rs, data) ==
    IF wbp.regWrite /\ wbp.rd # 0 /\ wbp.rd = rs
    THEN (IF wbp.memToReg THEN wbp.mem_data ELSE wbp.alu_result)
    ELSE data

\* an operand selection that prefers the MEM/WB snapshot
ForwardedWBFirst(exp, wbp, rs, data) ==
    IF wbp.regWrite /\ wbp.rd # 0 /\ wbp.rd = rs
    THEN (IF wbp.memToReg THEN wbp.mem_data ELSE wbp.alu_result)
    ELSE IF exp.regWrite /\ exp.rd # 0 /\ exp.rd = rs THEN exp.alu_result
    ELSE data

\* The operand selection of execute_stage: the EX/MEM snapshot, then the
\* MEM/WB snapshot, then the value ID read.
Forwarded(exp, wbp, rs, data) ==
    IF exp.regWrite /\ exp.rd # 0 /\ exp.rd = rs THEN exp.alu_result
    ELSE IF wbp.regWrite /\ wbp.rd # 0 /\ wbp.rd = rs
         THEN (IF wbp.memToReg THEN wbp.mem_data ELSE wbp.alu_result)
    ELSE data

\* The FP operand selection of execute_stage: the EX/MEM snapshot, then the
\* MEM/WB snapshot, then the value ID read; reads is the instruction's
\* fpRegRead signal for the source (memWriteType == 4 for the data of FSW)
FpForwarded(exp, wbp, rs, reads, data) ==
    IF exp.fpRegWrite /\ exp.rd # 0 /\ exp.rd = rs /\ reads THEN exp.fp_result
    ELSE IF wbp.fpRegWrite /\ wbp.rd # 0 /\ wbp.rd = rs /\ reads
         THEN (IF wbp.memToReg THEN wbp.mem_fp_data ELSE wbp.fp_result)
    ELSE data

fp_operand1(m) ==
    FpForwarded(m.ex_mem_prev, m.mem_wb_prev, m.id_ex.rs1, m.id_ex.fpRegRead1,
                m.id_ex.rs1_fp_data)

fp_operand2(m) ==
    FpForwarded(m.ex_mem_prev, m.mem_wb_prev, m.id_ex.rs2, m.id_ex.fpRegRead2,
                m.id_ex.rs2_fp_data)

forwarded_rs2_fp_data(m) ==
    FpForwarded(m.ex_mem_prev, m.mem_wb_prev, m.id_ex.rs2,
                m.id_ex.memWriteType = 4, m.id_ex.rs2_fp_data)

\* a float pattern is a NaN
FpNaN(f) == Low31(f) > 2139095040

\* the order of the non-NaN floats on their patterns: sign and magnitude,
\* -0.0 and +0.0 being equal
FpOrder(f) == IF f < 0 THEN -Low31(f) ELSE f

\* the pattern of the float u * 2^-149 for |u| < 2^24 (zero, the subnormals
\* and the first two binades of normals, where the patterns are spaced
\* evenly); negzero tells the sign of a zero
FpOfUnits(u, negzero) ==
    IF u > 0 THEN u
    ELSE IF u < 0 THEN MinInt32 - u
    ELSE IF negzero THEN MinInt32 ELSE 0

\* operand1 + operand2 in float, rounding to nearest: exact where both
\* operands and the sum are below 2^24 units of 2^-149.  Sums of larger
\* operands are not modelled (NaN stands for them): the programs checked
\* bring none into the datapath.
FpAdd(operand1, operand2) ==
    IF /\ Low31(operand1) < 16777216
       /\ Low31(operand2) < 16777216
       /\ FpOrder(operand1) + FpOrder(operand2) < 16777216
       /\ FpOrder(operand1) + FpOrder(operand2) > -16777216
    THEN FpOfUnits(FpOrder(operand1) + FpOrder(operand2),
                   operand1 < 0 /\ operand2 < 0)
    ELSE 2143289344

\* the pattern of -f
FpNeg(f) == IF f < 0 THEN Low31(f) ELSE MinInt32 + f

\* execute_fp_operation for the operations decode_instruction can select
\* (funct3 has three bits, so only FADD.S and FSUB.S are ever decoded)
execute_fp_operation(operand1, operand2, fpOp) ==
    IF fpOp = 112 THEN FpAdd(operand1, operand2)
    ELSE IF fpOp = 113 THEN FpAdd(operand1, FpNeg(operand2))
    ELSE 0

execute_fp_compare(operand1, operand2, fpOp) ==
    IF FpNaN(operand1) \/ FpNaN(operand2) THEN 0
    ELSE IF fpOp = 124 THEN (IF FpOrder(operand1) <= FpOrder(operand2) THEN 1 ELSE 0)
    ELSE IF fpOp = 125 THEN (IF FpOrder(operand1) < FpOrder(operand2) THEN 1 ELSE 0)
    ELSE IF fpOp = 126 THEN (IF FpOrder(operand1) = FpOrder(operand2) THEN 1 ELSE 0)
    ELSE 0

execute_fp_classify(operand) ==
    IF FpNaN(operand) THEN 512 + (IF operand < 0 THEN 256 ELSE 0)
    ELSE IF Low31(operand) = 2139095040 THEN 128 + (IF operand < 0 THEN 64 ELSE 0)
    ELSE IF Low31(operand) = 0 THEN 32 + (IF operand < 0 THEN 16 ELSE 0)
    ELSE IF Low31(operand) < 8388608 THEN 8 + (IF operand < 0 THEN 2 ELSE 0)
    ELSE 4 + (IF operand < 0 THEN 2 ELSE 0)

\* fp_int_result of execute_stage; FCVT.W.S and FMV.X.W are never decoded
FpIntResult(fpOp, operand1, operand2) ==
    IF fpOp \in {124, 125, 126} THEN execute_fp_compare(operand1, operand2, fpOp)
    ELSE IF fpOp = 127 THEN execute_fp_classify(operand1)
    ELSE 0

\* fp_result of execute_stage
FpResult(fpOp, operand1, operand2) ==
    IF fpOp \in {0, 120, 122, 124, 125, 126, 127} THEN 0
    ELSE execute_fp_operation(operand1, operand2, fpOp)

\* should_branch of execute_stage from the ALU's zero flag
ShouldBranch(aluOp, isZero) ==
    IF aluOp = 53 THEN ~isZero
    ELSE IF aluOp \in {48, 49, 50, 51, 52} THEN isZero
    ELSE FALSE

\* the recovery PC of a branch mispredicted as taken
SequentialPC(idx) == Add32(idx.pc, 4)

\* what EX found in ID/EX and selected as operands
Seen(m, idx, operand1, operand2, fwd2) ==
    [ran |-> TRUE, id |-> idx, operand1 |-> operand1, operand2 |-> operand2,
     forwarded_rs2_data |-> fwd2, should_branch |-> FALSE, mispredicted |-> FALSE,
     flush |-> FALSE, pc |-> m.PC]

\* JAL and JALR: link in EX/MEM, redirect, flush, and return early
ExecuteJump(m, idx, seen, target) ==
    [m EXCEPT !.ex_mem = [@ EXCEPT !.regWrite = TRUE, !.memRe = FALSE,
                                   !.memWr = FALSE, !.memToReg = FALSE,
                                   !.memReadType = 0, !.memWriteType = 0,
                                   !.alu_result = Add32(idx.pc, 4),
                                   !.rs2_data = 0, !.rd = idx.rd, !.pc = idx.pc,
                                   !.is_compressed = idx.is_compressed,
                                   !.valid = TRUE],
              !.PC = target,
              !.pipeline_flush = TRUE,
              !.ex = [seen EXCEPT !.flush = TRUE, !.pc = target]]

\* a misprediction test that looks at the outcome only
MispredictedWhenTaken(m, should_branch, target) == should_branch

\* the misprediction test of a conditional branch
Mispredicted(m, should_branch, target) ==
    \/ should_branch # m.branch_predicted_taken_
    \/ should_branch /\ target # m.branch_predicted_target_

\* the rest of execute_stage once the branch outcome is known; cond tells a
\* conditional branch (opcode 0x63 with the branch signal)
ExecuteFinish(m, idx, seen, fwd2, result, cond, should_branch, mispredicted, target) ==
    [m EXCEPT
        !.branch_predictor_ =
            IF cond /\ @.kind # "none" THEN update(@, idx.pc, target, should_branch)
            ELSE @,
        !.stats_.branch_mispredictions = IF mispredicted THEN @ + 1 ELSE @,
        !.stats_.branch_taken_count = IF cond /\ should_branch THEN @ + 1 ELSE @,
        !.stats_.branch_not_taken_count = IF cond /\ ~should_branch THEN @ + 1 ELSE @,
        !.PC = IF ~mispredicted THEN @
               ELSE IF should_branch THEN target ELSE SequentialPC(idx),
        !.pipeline_flush = IF mispredicted THEN TRUE ELSE @,
        !.ex_mem = [@ EXCEPT !.regWrite = idx.regWrite, !.memRe = idx.memRe,
                             !.memWr = idx.memWr, !.memToReg = idx.memToReg,
                             !.memReadType = idx.memReadType,
                             !.memWriteType = idx.memWriteType,
                             !.fpRegWrite = idx.fpRegWrite,
                             !.fp_result = FpResult(idx.fpOp, fp_operand1(m),
                                                    fp_operand2(m)),
                             !.alu_result = result,
                             !.rs2_data = fwd2,
                             !.rs2_fp_data = forwarded_rs2_fp_data(m),
                             !.rd = idx.rd, !.pc = idx.pc,
                             !.is_compressed = idx.is_compressed,
                             !.valid = TRUE],
        !.ex = [seen EXCEPT
                   !.should_branch = should_branch,
                   !.mispredicted = mispredicted,
                   !.flush = mispredicted,
                   !.pc = IF ~mispredicted THEN m.PC
                          ELSE IF should_branch THEN target ELSE SequentialPC(idx)]]

ExecuteBranch(m, idx, seen, fwd2, result, cond, should_branch, target) ==
    ExecuteFinish(m, idx, seen, fwd2, result, cond, should_branch,
                  cond /\ Mispredicted(m, should_branch, target), target)

\* a JALR target that keeps bit 0
JalrTargetUnmasked(operand1, immediate) == Add32(operand1, immediate)

\* the JALR target (operand1 + immediate) & ~1
JalrTarget(operand1, immediate) ==
    Add32(operand1, immediate) - (Add32(operand1, immediate) % 2)

\* execute_stage after the ALU ran on the selected operands
ExecuteALU(m, idx, operand1, seen, fwd2, alu) ==
    IF idx.opcode = 111 THEN
        ExecuteJump(m, idx, seen, Add32(idx.pc, idx.immediate))
    ELSE IF idx.opcode = 103 THEN
        ExecuteJump(m, idx, seen, JalrTarget(operand1, idx.immediate))
    ELSE
        ExecuteBranch(m, idx, seen, fwd2,
                      IF idx.fpOp \in {120, 122, 124, 125, 126, 127}
                      THEN FpIntResult(idx.fpOp, fp_operand1(m), fp_operand2(m))
                      ELSE alu.result,
                      idx.branch /\ idx.opcode = 99,
                      idx.branch /\ idx.opcode = 99
                          /\ ShouldBranch(idx.aluOp, alu.zero_flag),
                      Add32(idx.pc, idx.immediate))

\* execute_stage once both operands are selected
ExecuteOperands(m, idx, operand1, operand2, fwd2, wide, folded) ==
    ExecuteALU(m, idx, operand1, Seen(m, idx, operand1, operand2, fwd2), fwd2,
               ALU_execute(operand1, operand2, idx.aluOp, wide, folded))

\* execute_stage with the forwarded values of both sources: LUI replaces the
\* operands, aluSrc selects the immediate
ExecuteSelect(m, idx, fwd1, fwd2, wide, folded) ==
    ExecuteOperands(m, idx,
        IF idx.opcode = 55 /\ idx.upperIm THEN idx.immediate ELSE fwd1,
        IF idx.opcode = 55 /\ idx.upperIm THEN 0
        ELSE IF idx.aluSrc THEN idx.immediate ELSE fwd2,
        fwd2, wide, folded)

execute_stage(m, wide, folded) ==
    IF ~m.id_ex.valid THEN [m EXCEPT !.ex_mem.valid = FALSE, !.ex = NoExecute]
    ELSE ExecuteSelect(m, m.id_ex,
             Forwarded(m.ex_mem_prev, m.mem_wb_prev, m.id_ex.rs1, m.id_ex.rs1_data),
             Forwarded(m.ex_mem_prev, m.mem_wb_prev, m.id_ex.rs2, m.id_ex.rs2_data),
             wide, folded)

\* the statistics after ID counted one instruction of the given opcode
CountOpcode(st, opcode) ==
    [st EXCEPT !.total_instructions = @ + 1,
               !.r_type_count    = IF opcode = 51 THEN @ + 1 ELSE @,
               !.i_type_count    = IF opcode = 19 THEN @ + 1 ELSE @,
               !.load_count      = IF opcode = 3 THEN @ + 1 ELSE @,
               !.store_count     = IF opcode = 35 THEN @ + 1 ELSE @,
               !.branch_count    = IF opcode = 99 THEN @ + 1 ELSE @,
               !.jump_count      = IF opcode \in {103, 111} THEN @ + 1 ELSE @,
               !.lui_auipc_count = IF opcode \in {55, 23} THEN @ + 1 ELSE @]

get_register_value(m, reg) == IF reg \in 0..31 THEN m.registers[reg] ELSE 0

\* instruction_decode for a decoded instruction, its immediate, its branch
\* target and the prediction made for it; predicts tells whether a predictor
\* was consulted, jump whether the instruction is JAL or JALR
DecodeLatch(m, d, immediate, target, predicts, pred, jump) ==
    [m EXCEPT
        !.stats_ = CountOpcode(@, d.opcode),
        !.branch_predicted_taken_ = IF predicts THEN pred.predicted_taken ELSE jump,
        !.branch_predicted_target_ =
            IF predicts THEN pred.predicted_target ELSE IF jump THEN target ELSE 0,
        !.branch_pc_ = IF predicts \/ jump THEN m.if_id.pc ELSE 0,
        !.PC = IF predicts /\ pred.predicted_taken THEN target ELSE @,
        !.pipeline_flush = IF predicts /\ pred.predicted_taken THEN TRUE ELSE @,
        !.id_flush = predicts /\ pred.predicted_taken,
        !.tracing = IF @.enable_tracing_
                    THEN track_instruction_dependencies(@, m.stats_.total_cycles,
                                                        m.if_id.pc, d.rd, d.rs1, d.rs2)
                    ELSE @,
        !.id_ex = [@ EXCEPT
                      !.memReadType = d.memReadType,
                      !.memWriteType = d.memWriteType,
                      !.fpRegWrite = d.fpRegWrite, !.fpRegRead1 = d.fpRegRead1,
                      !.fpRegRead2 = d.fpRegRead2, !.fpOp = d.fpOp,
                      !.regWrite = d.regWrite, !.aluSrc = d.aluSrc,
                      !.branch = d.branch, !.memRe = d.memRe, !.memWr = d.memWr,
                      !.memToReg = d.memToReg, !.upperIm = d.upperIm,
                      !.aluOp = d.aluOp, !.opcode = d.opcode, !.rd = d.rd,
                      !.funct3 = d.funct3, !.rs1 = d.rs1, !.rs2 = d.rs2,
                      !.funct7 = d.funct7,
                      !.rs1_data = IF d.rs1 # 0 THEN get_register_value(m, d.rs1) ELSE 0,
                      !.rs2_data = IF d.rs2 # 0 THEN get_register_value(m, d.rs2) ELSE 0,
                      !.rs1_fp_data = IF d.fpRegRead1 /\ d.rs1 # 0
                                      THEN m.registers_fp[d.rs1] ELSE 0,
                      !.rs2_fp_data = IF d.fpRegRead2 /\ d.rs2 # 0
                                      THEN m.registers_fp[d.rs2] ELSE 0,
                      !.immediate = immediate,
                      !.pc = m.if_id.pc,
                      !.is_compressed = m.if_id.is_compressed,
                      !.valid = TRUE]]

DecodePredict(m, d, immediate, target) ==
    DecodeLatch(m, d, immediate, target,
                d.branch /\ m.branch_predictor_.kind # "none" /\ d.opcode = 99,
                predict(m.branch_predictor_, m.if_id.pc, target),
                d.branch /\ d.opcode \in {103, 111})

DecodeImmediate(m, d, immediate) ==
    DecodePredict(m, d, immediate, Add32(m.if_id.pc, immediate))

\* a decode with the load-use hazard detection switched on
Decoded_stalling(m, d) ==
    IF /\ m.id_ex.memRe /\ m.id_ex.regWrite /\ m.id_ex.rd # 0
       /\ \/ m.id_ex.rd = d.rs1 /\ d.rs1 # 0
          \/ m.id_ex.rd = d.rs2 /\ d.rs2 # 0
    THEN [m EXCEPT !.pipeline_stall = TRUE, !.id_flush = FALSE]
    ELSE IF ~d.ok THEN
        [m EXCEPT !.id_ex = [@ EXCEPT !.memReadType = d.memReadType,
                                      !.memWriteType = d.memWriteType,
                                      !.fpRegWrite = d.fpRegWrite,
                                      !.fpRegRead1 = d.fpRegRead1,
                                      !.fpRegRead2 = d.fpRegRead2,
                                      !.fpOp = d.fpOp,
                                      !.valid = FALSE],
                  !.id_flush = FALSE]
    ELSE DecodeImmediate(m, d, generate_immediate(m.if_id.instruction, d.opcode))

\* instruction_decode once decode_instruction returned d; decode_instruction
\* has written six fields of id_ex itself, also when it returns false
Decoded(m, d) ==
    IF ~d.ok THEN
        [m EXCEPT !.id_ex = [@ EXCEPT !.memReadType = d.memReadType,
                                      !.memWriteType = d.memWriteType,
                                      !.fpRegWrite = d.fpRegWrite,
                                      !.fpRegRead1 = d.fpRegRead1,
                                      !.fpRegRead2 = d.fpRegRead2,
                                      !.fpOp = d.fpOp,
                                      !.valid = FALSE],
                  !.id_flush = FALSE]
    ELSE DecodeImmediate(m, d, generate_immediate(m.if_id.instruction, d.opcode))

\* a decode that clears the flush flag but decodes the latched instruction
instruction_decode_through_flush(m) ==
    IF ~m.if_id.valid THEN
        [m EXCEPT !.id_ex.valid = FALSE, !.pipeline_flush = FALSE, !.id_flush = FALSE]
    ELSE Decoded([m EXCEPT !.pipeline_flush = FALSE],
                 decode_instruction(m.if_id.instruction))

instruction_decode(m) ==
    IF m.pipeline_flush THEN
        [m EXCEPT !.id_ex.valid = FALSE, !.pipeline_flush = FALSE, !.id_flush = FALSE]
    ELSE IF ~m.if_id.valid THEN
        [m EXCEPT !.id_ex.valid = FALSE, !.id_flush = FALSE]
    ELSE Decoded(m, decode_instruction(m.if_id.instruction))

\* PC >= maxPC, PC being an unsigned quantity
PastEnd(pc, maxPC) == pc < 0 \/ pc >= maxPC

\* IF latches the expansion of a compressed instruction
FetchCompressed(m, inst_16, expanded) ==
    [m EXCEPT !.if_id = [instruction |-> expanded, pc |-> m.PC,
                         valid |-> expanded # 0, is_compressed |-> TRUE,
                         compressed_inst |-> inst_16],
              !.PC = @ + 2]

\* IF latches a 32-bit instruction
FetchWord(m, inst_32) ==
    IF inst_32 = 0 THEN [m EXCEPT !.if_id.valid = FALSE]
    ELSE [m EXCEPT !.if_id = [instruction |-> inst_32, pc |-> m.PC,
                              valid |-> TRUE, is_compressed |-> FALSE,
                              compressed_inst |-> 0],
                   !.PC = @ + 4]

\* a fetch that steps over an all-zero halfword
Fetched_past_zero(m, instMem, inst_16) ==
    IF inst_16 = 0 THEN [m EXCEPT !.if_id.valid = FALSE, !.PC = @ + 2]
    ELSE IF is_compressed_instruction(inst_16)
    THEN FetchCompressed(m, inst_16, expand_compressed_instruction(inst_16))
    ELSE FetchWord(m, get_instruction(instMem, m.PC))

Fetched(m, instMem, inst_16) ==
    IF inst_16 = 0 THEN [m EXCEPT !.if_id.valid = FALSE]
    ELSE IF is_compressed_instruction(inst_16)
    THEN FetchCompressed(m, inst_16, expand_compressed_instruction(inst_16))
    ELSE FetchWord(m, get_instruction(instMem, m.PC))

\* a fetch that does not look at the flush flag
instruction_fetch_unflushed(m, instMem, maxPC) ==
    IF m.pipeline_stall THEN m
    ELSE IF PastEnd(m.PC, maxPC) THEN [m EXCEPT !.if_id.valid = FALSE]
    ELSE Fetched(m, instMem, get_instruction_16bit(instMem, m.PC))

instruction_fetch(m, instMem, maxPC) ==
    IF m.pipeline_stall THEN m
    ELSE IF m.pipeline_flush THEN
        [m EXCEPT !.if_id.valid = FALSE, !.pipeline_flush = FALSE]
    ELSE IF PastEnd(m.PC, maxPC) THEN [m EXCEPT !.if_id.valid = FALSE]
    ELSE Fetched(m, instMem, get_instruction_16bit(instMem, m.PC))

\* the end of run_pipeline_cycle: the stall and flush counters, and the stall
\* released unless a load sits in ID/EX
capture_pipeline_snapshot(t, m, cycle, had_stall, had_flush) ==
    [t EXCEPT !.pipeline_trace_ =
                  Append(@, [cycle |-> cycle, stall |-> had_stall, flush |-> had_flush,
                             if_id |-> [valid |-> m.if_id.valid, pc |-> m.if_id.pc,
                                        instruction |-> m.if_id.instruction],
                             id_ex |-> [valid |-> m.id_ex.valid, pc |-> m.id_ex.pc],
                             ex_mem |-> [valid |-> m.ex_mem.valid, pc |-> m.ex_mem.pc,
                                         alu_result |-> m.ex_mem.alu_result],
                             mem_wb |-> [valid |-> m.mem_wb.valid, pc |-> m.mem_wb.pc,
                                         write_data |->
                                             IF m.mem_wb.memToReg THEN m.mem_wb.mem_data
                                             ELSE m.mem_wb.alu_result]])]

CycleEnd(m, cycle_had_stall, cycle_had_flush) ==
    [m EXCEPT
        !.stats_.stall_count = IF cycle_had_stall THEN @ + 1 ELSE @,
        !.stats_.flush_count = IF cycle_had_flush THEN @ + 1 ELSE @,
        !.tracing = IF @.enable_tracing_
                    THEN capture_pipeline_snapshot(@, m, m.stats_.total_cycles,
                                                   cycle_had_stall, cycle_had_flush)
                    ELSE @,
        !.pipeline_stall = IF @ /\ ~m.id_ex.memRe THEN FALSE ELSE @]

CycleIF(m, cycle_had_stall, cycle_had_flush) ==
    CycleEnd(m, cycle_had_stall \/ m.pipeline_stall,
                cycle_had_flush \/ m.pipeline_flush)

CycleID(m, instMem, maxPC, cycle_had_stall, cycle_had_flush) ==
    CycleIF(instruction_fetch(m, instMem, maxPC),
            cycle_had_stall \/ m.pipeline_stall, cycle_had_flush \/ m.pipeline_flush)

CycleEX(m, instMem, maxPC, cycle_had_stall, cycle_had_flush) ==
    CycleID(instruction_decode(m), instMem, maxPC,
            cycle_had_stall \/ m.pipeline_stall, cycle_had_flush \/ m.pipeline_flush)

\* the start of run_pipeline_cycle: the cycle number and the two snapshots
CycleStart(m, cycle) ==
    [m EXCEPT !.stats_.total_cycles = cycle,
              !.ex_mem_prev = m.ex_mem,
              !.mem_wb_prev = m.mem_wb]

run_pipeline_cycle(m, instMem, maxPC, cycle, wide, folded) ==
    CycleEX(execute_stage(memory_stage(write_back_stage(CycleStart(m, cycle))), wide,
                          folded),
            instMem, maxPC, m.pipeline_stall, m.pipeline_flush)

is_pipeline_empty(m) ==
    ~m.if_id.valid /\ ~m.id_ex.valid /\ ~m.ex_mem.valid /\ ~m.mem_wb.valid

(* ----------------------------------------------------------------------- *)
(* Programs: instruction words as decode_instruction and                    *)
(* generate_immediate read them, and the byte image IF fetches from          *)
(* ----------------------------------------------------------------------- *)

RType(funct7, rs2, rs1, funct3, rd) ==
    Shl(funct7, 25) + rs2 * 1048576 + rs1 * 32768 + funct3 * 4096 + rd * 128 + 51

\* imm in -2048..2047
IType(imm, rs1, funct3, rd, opcode) ==
    Shl(imm % 4096, 20) + rs1 * 32768 + funct3 * 4096 + rd * 128 + opcode

SType(imm, rs2, rs1, funct3) ==
    Shl(Field(imm % 4096, 5, 7), 25) + rs2 * 1048576 + rs1 * 32768 + funct3 * 4096
      + Field(imm % 4096, 0, 5) * 128 + 35

\* imm even, in -4096..4094
BType(imm, rs2, rs1, funct3) ==
    LET u == imm % 8192
    IN  Shl(Field(u, 12, 1) * 64 + Field(u, 5, 6), 25) + rs2 * 1048576 + rs1 * 32768
          + funct3 * 4096 + Field(u, 1, 4) * 256 + Field(u, 11, 1) * 128 + 99

\* imm even, in -1048576..1048574
JType(imm, rd) ==
    LET u == imm % 2097152
    IN  Shl(Field(u, 20, 1) * 2048 + Field(u, 1, 10) * 2 + Field(u, 11, 1), 20)
          + Field(u, 12, 8) * 4096 + rd * 128 + 111

\* imm20 in 0..1048575
UType(imm20, rd, opcode) ==
    Shl(imm20 \div 16, 16) + (imm20 % 16) * 4096 + rd * 128 + opcode

\* C.BEQZ (funct3 6) / C.BNEZ (funct3 7) on register 8 + r with the offset
\* bits as the expansion reads them: raw is the value it assembles before
\* its `imm <<= 1`
CBType(funct3, r, raw) ==
    funct3 * 8192 + Field(raw, 8, 1) * 4096 + Field(raw, 4, 1) * 2048
      + Field(raw, 3, 1) * 1024 + r * 128 + Field(raw, 7, 1) * 64
      + Field(raw, 6, 1) * 32 + Field(raw, 2, 1) * 16 + Field(raw, 1, 1) * 8
      + Field(raw, 5, 1) * 4 + 1

\* C.ADDI rd, imm (imm in -32..31); rd = 0 is C.NOP
CIType(funct3, rd, imm) ==
    funct3 * 8192 + Field(imm % 64, 5, 1) * 4096 + rd * 128
      + Field(imm % 64, 0, 5) * 4 + 1

\* the bytes of one instruction, least significant first
InstrBytes(w) ==
    IF w >= 0 /\ w < 65536 /\ is_compressed_instruction(w)
    THEN << Field(w, 0, 8), Field(w, 8, 8) >>
    ELSE Bytes(w)

RECURSIVE Image(_)
Image(prog) == IF prog = << >> THEN << >> ELSE InstrBytes(prog[1]) \o Image(Tail(prog))

\* all sequences over S of length 1..n
SeqsUpTo(S, n) == UNION {[1..k -> S] : k \in 1..n}

(* ----------------------------------------------------------------------- *)
(* State                                                                    *)
(* ----------------------------------------------------------------------- *)

VARIABLES
    PC, registers, registers_fp, if_id, id_ex, ex_mem, mem_wb, ex_mem_prev, mem_wb_prev,
    pipeline_stall, pipeline_flush,
    branch_predicted_taken_, branch_predicted_target_, branch_pc_,
    stats_, dmem_, branch_predictor_,
    tracing,         \* enable_tracing_ and the structures tracing fills
    ex,              \* what execute_stage computed in the last tick
    id_flush,        \* whether ID asserted the flush in the last tick
    instMem, maxPC,  \* the host's program image and its length in bytes
    currentCycle_,   \* the host's cycle counter
    calls            \* the calls made on the memory device from outside the
                     \* pipeline, oldest first, each with what it returned

cpuVars == << PC, registers, registers_fp, if_id, id_ex, ex_mem, mem_wb, ex_mem_prev, mem_wb_prev,
              pipeline_stall, pipeline_flush, branch_predicted_taken_,
              branch_predicted_target_, branch_pc_, stats_, dmem_,
              branch_predictor_, ex, id_flush, tracing >>

vars == << cpuVars, instMem, maxPC, currentCycle_, calls >>

\* the processor as one record, the form the stage operators work on
cpu ==
    [PC |-> PC, registers |-> registers, registers_fp |-> registers_fp,
     if_id |-> if_id, id_ex |-> id_ex,
     ex_mem |-> ex_mem, mem_wb |-> mem_wb, ex_mem_prev |-> ex_mem_prev,
     mem_wb_prev |-> mem_wb_prev, pipeline_stall |-> pipeline_stall,
     pipeline_flush |-> pipeline_flush,
     branch_predicted_taken_ |-> branch_predicted_taken_,
     branch_predicted_target_ |-> branch_predicted_target_,
     branch_pc_ |-> branch_pc_, stats_ |-> stats_, dmem_ |-> dmem_,
     branch_predictor_ |-> branch_predictor_, ex |-> ex, id_flush |-> id_flush,
     tracing |-> tracing]

\* the variables take the fields of the record m
Becomes(m) ==
    /\ PC' = m.PC
    /\ registers' = m.registers
    /\ registers_fp' = m.registers_fp
    /\ if_id' = m.if_id
    /\ id_ex' = m.id_ex
    /\ ex_mem' = m.ex_mem
    /\ mem_wb' = m.mem_wb
    /\ ex_mem_prev' = m.ex_mem_prev
    /\ mem_wb_prev' = m.mem_wb_prev
    /\ pipeline_stall' = m.pipeline_stall
    /\ pipeline_flush' = m.pipeline_flush
    /\ branch_predicted_taken_' = m.branch_predicted_taken_
    /\ branch_predicted_target_' = m.branch_predicted_target_
    /\ branch_pc_' = m.branch_pc_
    /\ stats_' = m.stats_
    /\ dmem_' = m.dmem_
    /\ branch_predictor_' = m.branch_predictor_
    /\ ex' = m.ex
    /\ id_flush' = m.id_flush
    /\ tracing' = m.tracing

\* The host has loaded the program prog and attached a zeroed RAM behind the
\* cache and the predictor of scheme kind to a freshly constructed processor;
\* no device call has been made yet.
Wired(prog, bp, cache) ==
    LET m == [NewCPU(bp) EXCEPT !.dmem_ = NewDevice(cache)]
    IN  /\ PC = m.PC
        /\ registers = m.registers
        /\ registers_fp = m.registers_fp
        /\ if_id = m.if_id
        /\ id_ex = m.id_ex
        /\ ex_mem = m.ex_mem
        /\ mem_wb = m.mem_wb
        /\ ex_mem_prev = m.ex_mem_prev
        /\ mem_wb_prev = m.mem_wb_prev
        /\ pipeline_stall = m.pipeline_stall
        /\ pipeline_flush = m.pipeline_flush
        /\ branch_predicted_taken_ = m.branch_predicted_taken_
        /\ branch_predicted_target_ = m.branch_predicted_target_
        /\ branch_pc_ = m.branch_pc_
        /\ stats_ = m.stats_
        /\ dmem_ = m.dmem_
        /\ branch_predictor_ = m.branch_predictor_
        /\ ex = m.ex
        /\ id_flush = m.id_flush
        /\ tracing = m.tracing
        /\ instMem = Image(prog)
        /\ maxPC = Len(Image(prog))
        /\ currentCycle_ = 0
        /\ calls = << >>

\* the same with the predictor createBranchPredictor makes for scheme kind
LoadedWith(prog, kind, cache) == Wired(prog, NewPredictor(kind), cache)

\* the same, the processor being wired straight to the RAM
Loaded(prog, kind) == LoadedWith(prog, kind, NoCache)

\* the outcomes the build may give the over-wide shift of this tick's EX
WideShifts ==
    IF id_ex.valid /\ id_ex.aluOp \in {34, 37} THEN WideShiftOutcomes ELSE {0}

\* the outcomes the build may give the signed comparison of this tick's EX:
\* BGE and BLT test the sign of operand1 - operand2, whose overflow is
\* undefined, so the build may test the wrapped difference or may have folded
\* the test into a comparison of the operands
FoldedCompares ==
    IF id_ex.valid /\ id_ex.aluOp \in {49, 51} THEN BOOLEAN ELSE {FALSE}

\* One step of the host: the cycle counter advances and the processor runs
\* one pipeline cycle.  The host stops stepping at its cycle cap.
stepSimulation(MAX_CYCLES) ==
    /\ currentCycle_ < MAX_CYCLES
    /\ currentCycle_' = currentCycle_ + 1
    /\ \E wide \in WideShifts, folded \in FoldedCompares :
          Becomes(run_pipeline_cycle(cpu, instMem, maxPC, currentCycle_ + 1, wide,
                                     folded))
    /\ UNCHANGED << instMem, maxPC, calls >>

\* the device answered r to a call made from outside the pipeline
Answered(r, op, addr, size, data) ==
    /\ dmem_' = r.dev
    /\ calls' = Append(calls, [op |-> op, addr |-> addr, size |-> size,
                               data |-> data, ok |-> r.ok, value |-> r.data])
    /\ UNCHANGED << PC, registers, registers_fp, if_id, id_ex, ex_mem, mem_wb, ex_mem_prev,
                    mem_wb_prev, pipeline_stall, pipeline_flush,
                    branch_predicted_taken_, branch_predicted_target_, branch_pc_,
                    stats_, branch_predictor_, ex, id_flush, tracing, instMem,
                    maxPC, currentCycle_ >>

\* dmem->load(addr, size), called on the device directly
load(addr, size, maxCalls) ==
    /\ Len(calls) < maxCalls
    /\ Answered(DeviceLoad(dmem_, addr, size), "load", addr, size, 0)

StoreAnswer(r) == [ok |-> r.ok, data |-> 0, dev |-> r.dev]

\* dmem->store(addr, data, size), called on the device directly
store(addr, data, size, maxCalls) ==
    /\ Len(calls) < maxCalls
    /\ Answered(StoreAnswer(DeviceStore(dmem_, addr, data, size)), "store", addr,
                size, data)

\* alu.execute(operand1, operand2, aluOp), called on the ALU directly: the
\* call is recorded with its result and the zero flag it leaves
Executed(operand1, operand2, aluOp, alu) ==
    /\ calls' = Append(calls, [op |-> "execute", operand1 |-> operand1,
                               operand2 |-> operand2, aluOp |-> aluOp,
                               result |-> alu.result, zero_flag |-> alu.zero_flag])
    /\ UNCHANGED << cpuVars, instMem, maxPC, currentCycle_ >>

execute(operand1, operand2, aluOp, wide, folded, maxCalls) ==
    /\ Len(calls) < maxCalls
    /\ Executed(operand1, operand2, aluOp,
                ALU_execute(operand1, operand2, aluOp, wide, folded))

\* cpu.enable_tracing(enable), called by the host before it starts the run
enable_tracing(enable) ==
    /\ currentCycle_ = 0
    /\ tracing.enable_tracing_ # enable
    /\ tracing' = [tracing EXCEPT !.enable_tracing_ = enable]
    /\ UNCHANGED << PC, registers, registers_fp, if_id, id_ex, ex_mem, mem_wb, ex_mem_prev,
                    mem_wb_prev, pipeline_stall, pipeline_flush,
                    branch_predicted_taken_, branch_predicted_target_, branch_pc_,
                    stats_, dmem_, branch_predictor_, ex, id_flush, instMem, maxPC,
                    currentCycle_, calls >>

\* what a call on the predictor leaves alone
besidePredictor ==
    << PC, registers, registers_fp, if_id, id_ex, ex_mem, mem_wb, ex_mem_prev,
       mem_wb_prev,
       pipeline_stall, pipeline_flush, branch_predicted_taken_,
       branch_predicted_target_, branch_pc_, stats_, dmem_, ex, id_flush,
       tracing, instMem, maxPC, currentCycle_ >>

\* branch_predictor_->predict(pc, target), called on the predictor directly:
\* the call is recorded with the predictor it was made on and its answer
predictor_predict(pc, target, maxCalls) ==
    /\ Len(calls) < maxCalls
    /\ calls' = Append(calls, [op |-> "predict", pc |-> pc, target |-> target,
                               taken |-> predict(branch_predictor_, pc, target).predicted_taken,
                               before |-> branch_predictor_])
    /\ UNCHANGED << cpuVars, instMem, maxPC, currentCycle_ >>

\* branch_predictor_->update(pc, target, taken), called on the predictor
\* directly: the call is recorded with the predictor it was made on
predictor_update(pc, target, taken, maxCalls) ==
    /\ Len(calls) < maxCalls
    /\ calls' = Append(calls, [op |-> "update", pc |-> pc, target |-> target,
                               taken |-> taken, before |-> branch_predictor_])
    /\ branch_predictor_' = update(branch_predictor_, pc, target, taken)
    /\ UNCHANGED besidePredictor

\* branch_predictor_->reset(), called on the predictor directly
predictor_reset(maxCalls) ==
    /\ Len(calls) < maxCalls
    /\ calls' = Append(calls, [op |-> "reset", pc |-> 0, target |-> 0,
                               taken |-> FALSE, before |-> branch_predictor_])
    /\ branch_predictor_' = reset(branch_predictor_)
    /\ UNCHANGED besidePredictor

\* cpu.reset(), called by the host: the call is recorded with the processor
\* it was made on and the cycle it was made in
cpu_reset(maxCalls) ==
    /\ Len(calls) < maxCalls
    /\ calls' = Append(calls, [op |-> "reset", before |-> cpu,
                               cycle |-> currentCycle_])
    /\ Becomes(CPU_reset(cpu))
    /\ maxPC' = 0
    /\ UNCHANGED << instMem, currentCycle_ >>

\* cpu.set_max_pc(max_pc), called by the host after a reset
set_max_pc(max_pc) ==
    /\ maxPC # max_pc
    /\ maxPC' = max_pc
    /\ UNCHANGED << cpuVars, instMem, currentCycle_, calls >>

(* ----------------------------------------------------------------------- *)
(* Straight-line programs with loads, stores and bubbles                    *)
(* ----------------------------------------------------------------------- *)

MaxLen == 3
MaxCycles == 10

\* t0 is x5, a0 is x10, sp is x2
Instrs ==
    { IType(3, 0, 0, 5, 19),        \* addi t0, zero, 3
      IType(4, 5, 0, 5, 19),        \* addi t0, t0, 4
      RType(0, 5, 5, 0, 10),        \* add  a0, t0, t0
      IType(5, 5, 0, 0, 19),        \* addi zero, t0, 5
      RType(0, 0, 5, 0, 10),        \* add  a0, t0, zero
      IType(8, 0, 2, 5, 3),         \* lw   t0, 8(zero)
      SType(8, 10, 0, 2),           \* sw   a0, 8(zero)
      CIType(0, 0, 0) }             \* c.nop

\* sw 42 to 0x100, lw t0, 0(sp), add a0, t0, zero
LoadUseProgram ==
    << IType(42, 0, 0, 6, 19),      \* addi t1, zero, 42
       IType(256, 0, 0, 2, 19),     \* addi sp, zero, 0x100
       SType(0, 6, 2, 2),           \* sw   t1, 0(sp)
       IType(0, 2, 2, 5, 3),        \* lw   t0, 0(sp)
       RType(0, 0, 5, 0, 10) >>     \* add  a0, t0, zero

\* addi t0, zero, 3; addi t0, t0, 4; add a0, t0, t0
ForwardProgram ==
    << IType(3, 0, 0, 5, 19), IType(4, 5, 0, 5, 19), RType(0, 5, 5, 0, 10) >>

Programs == SeqsUpTo(Instrs, MaxLen) \cup {LoadUseProgram, ForwardProgram}

Init == \E prog \in Programs : Loaded(prog, "none")

Next == stepSimulation(MaxCycles)

Spec == Init /\ [][Next]_vars

(* ----------------------------------------------------------------------- *)
(* Properties                                                               *)
(* ----------------------------------------------------------------------- *)

\* the instruction EX consumed takes its first ALU operand from rs1
\* (LUI replaces it by the immediate)
ReadsRs1(idx) == ~(idx.opcode = 55 /\ idx.upperIm)

\* the instruction EX consumed takes its second ALU operand from rs2
ReadsRs2(idx) == ~idx.aluSrc /\ ~(idx.opcode = 55 /\ idx.upperIm)

ZeroRegisterState ==
    /\ registers[0] = 0
    /\ id_ex.valid /\ id_ex.rs1 = 0 => id_ex.rs1_data = 0
    /\ id_ex.valid /\ id_ex.rs2 = 0 => id_ex.rs2_data = 0
    /\ ex.ran /\ ex.id.rs1 = 0 /\ ReadsRs1(ex.id) => ex.operand1 = 0
    /\ ex.ran /\ ex.id.rs2 = 0 /\ ReadsRs2(ex.id) => ex.operand2 = 0
    /\ ex.ran /\ ex.id.rs2 = 0 => ex.forwarded_rs2_data = 0

\* C1: register 0 always reads 0: registers[0] is 0 in every state; a tick
\* whose WB retires an instruction with rd = 0 leaves the whole integer
\* register file unchanged; ID hands EX the value 0 for a source index 0; and
\* EX never replaces the operand of a source index 0 by a forwarded value.
C1_ZeroRegister ==
    /\ []ZeroRegisterState
    /\ [][mem_wb.valid /\ mem_wb.rd = 0 => registers' = registers]_vars

\* C1 witness: WB has retired a register-writing instruction with rd = 0 and a
\* non-zero result, while EX ran a consumer of source index 0 against an
\* EX/MEM snapshot that names rd = 0 with a non-zero result.
C1_Witness ==
    /\ mem_wb_prev.valid /\ mem_wb_prev.regWrite /\ mem_wb_prev.rd = 0
    /\ mem_wb_prev.alu_result # 0
    /\ ex.ran /\ ex.id.rs2 = 0 /\ ReadsRs2(ex.id)
    /\ ex_mem_prev.valid /\ ex_mem_prev.regWrite /\ ex_mem_prev.rd = 0
    /\ ex_mem_prev.alu_result # 0

\* the instruction EX ran in the last tick directly follows a valid
\* instruction that writes register rd # 0 with its ALU result
AfterAluProducer ==
    /\ ex.ran
    /\ ex_mem_prev.valid /\ ex_mem_prev.regWrite /\ ~ex_mem_prev.memRe
    /\ ~ex_mem_prev.memToReg /\ ex_mem_prev.rd # 0

BackToBackState ==
    /\ AfterAluProducer /\ ex.id.rs1 = ex_mem_prev.rd /\ ReadsRs1(ex.id)
         => ex.operand1 = ex_mem_prev.alu_result
    /\ AfterAluProducer /\ ex.id.rs2 = ex_mem_prev.rd /\ ReadsRs2(ex.id)
         => ex.operand2 = ex_mem_prev.alu_result
    /\ AfterAluProducer /\ ex.id.rs2 = ex_mem_prev.rd
         => ex.forwarded_rs2_data = ex_mem_prev.alu_result
    /\ ~pipeline_stall
    /\ stats_.stall_count = 0

\* C2: when an instruction directly follows one that writes rd = r # 0 with
\* its ALU result and reads r as rs1 or rs2, its EX operand is the first
\* instruction's ALU result; no stall is inserted: the stall flag is never set,
\* the stall counter stays 0, and an instruction waiting in ID/EX is executed
\* in the very next tick.
C2_BackToBackForwarding ==
    /\ []BackToBackState
    /\ [][id_ex.valid => ex'.ran /\ ex'.id = id_ex]_vars

\* C2 witness: EX ran a consumer right after its ALU producer and used the
\* producer's result, which differs from what ID had read from the register.
C2_Witness ==
    /\ AfterAluProducer /\ ex.id.rs1 = ex_mem_prev.rd /\ ReadsRs1(ex.id)
    /\ ex.operand1 = ex_mem_prev.alu_result
    /\ ex.id.rs1_data # ex_mem_prev.alu_result

\* the instruction EX ran in the last tick directly follows a valid load
\* into register rd # 0; the load itself was in MEM in that tick, so MEM/WB
\* holds the value it loaded
AfterLoad ==
    /\ ex.ran
    /\ ex_mem_prev.valid /\ ex_mem_prev.memRe /\ ex_mem_prev.regWrite
    /\ ex_mem_prev.rd # 0
    /\ mem_wb.valid /\ mem_wb.pc = ex_mem_prev.pc

\* C3: a consumer that directly follows a load of its source register gets
\* the loaded value as its EX operand, never the load's effective address;
\* storing 42 to 0x100, then lw t0, 0(sp), then add a0, t0, zero leaves 42
\* in a0.
C3_LoadUse ==
    /\ AfterLoad /\ ex.id.rs1 = ex_mem_prev.rd /\ ReadsRs1(ex.id)
         => ex.operand1 = mem_wb.mem_data
    /\ AfterLoad /\ ex.id.rs2 = ex_mem_prev.rd /\ ReadsRs2(ex.id)
         => ex.operand2 = mem_wb.mem_data
    /\ instMem = Image(LoadUseProgram) /\ currentCycle_ >= 9 => registers[10] = 42

\* C4: the operands EX uses in a tick come from EX/MEM and MEM/WB as they were
\* when the tick began (the end of the previous tick), EX/MEM first, then
\* MEM/WB, then the value ID read; addi t0, zero, 3; addi t0, t0, 4;
\* add a0, t0, t0 leaves 14 in a0.
C4_PreviousTickOperands ==
    /\ [][id_ex.valid =>
            LET sel(rs, data) ==
                    IF ex_mem.regWrite /\ ex_mem.rd # 0 /\ ex_mem.rd = rs
                    THEN ex_mem.alu_result
                    ELSE IF mem_wb.regWrite /\ mem_wb.rd # 0 /\ mem_wb.rd = rs
                    THEN (IF mem_wb.memToReg THEN mem_wb.mem_data
                          ELSE mem_wb.alu_result)
                    ELSE data
            IN  /\ ex'.ran
                /\ ReadsRs1(id_ex) => ex'.operand1 = sel(id_ex.rs1, id_ex.rs1_data)
                /\ ReadsRs2(id_ex) => ex'.operand2 = sel(id_ex.rs2, id_ex.rs2_data)
                /\ ex'.forwarded_rs2_data = sel(id_ex.rs2, id_ex.rs2_data)]_vars
    /\ [](instMem = Image(ForwardProgram) /\ currentCycle_ >= 7 => registers[10] = 14)

\* C4 witness: both snapshots name the source register with different values,
\* MEM/WB has been overwritten in the same tick, and EX of the example's add
\* used the EX/MEM snapshot for both operands (7 + 7).
C4_Witness ==
    /\ instMem = Image(ForwardProgram)
    /\ ex.ran /\ ReadsRs1(ex.id)
    /\ ex_mem_prev.regWrite /\ ex_mem_prev.rd = ex.id.rs1 /\ ex.id.rs1 # 0
    /\ mem_wb_prev.regWrite /\ mem_wb_prev.rd = ex.id.rs1
    /\ mem_wb_prev.alu_result # ex_mem_prev.alu_result
    /\ mem_wb # mem_wb_prev
    /\ ex.operand1 = ex_mem_prev.alu_result
    /\ ex.operand1 + ex.operand2 = 14

(* ----------------------------------------------------------------------- *)
(* Programs of integer R-type, I-type and LUI instructions                  *)
(* ----------------------------------------------------------------------- *)

AluLen == 5
AluCycles == 10

AluInstrs ==
    { IType(5, 5, 0, 5, 19),        \* addi t0, t0, 5
      RType(0, 6, 5, 0, 10),        \* add  a0, t0, t1
      UType(1, 6, 55),              \* lui  t1, 1
      RType(32, 5, 10, 0, 6) }      \* sub  t1, a0, t0

\* addi t0, zero, 5; addi t1, zero, 7; add a0, t0, t1
ArithmeticProgram ==
    << IType(5, 0, 0, 5, 19), IType(7, 0, 0, 6, 19), RType(0, 6, 5, 0, 10) >>

AluPrograms == SeqsUpTo(AluInstrs, AluLen) \cup {ArithmeticProgram}

InitAlu == \E prog \in AluPrograms : Loaded(prog, "none")

NextAlu == stepSimulation(AluCycles)

SpecAlu == InitAlu /\ [][NextAlu]_vars

\* One instruction executed on its own on the register file regs: operands
\* from regs (LUI: the immediate and 0; aluSrc: the immediate), the result
\* written to rd unless rd is 0.
SequentialWrite(regs, d, immediate, wide) ==
    IF d.ok /\ d.regWrite /\ d.rd # 0
    THEN [regs EXCEPT ![d.rd] =
              ALU_result(IF d.opcode = 55 /\ d.upperIm THEN immediate ELSE regs[d.rs1],
                         IF d.opcode = 55 /\ d.upperIm THEN 0
                         ELSE IF d.aluSrc THEN immediate ELSE regs[d.rs2],
                         d.aluOp, wide)]
    ELSE regs

SequentialStep(regs, instruction, wide) ==
    SequentialWrite(regs, decode_instruction(instruction),
                    generate_immediate(instruction, Field(instruction, 0, 7)), wide)

\* the 32-bit instructions of the image executed one at a time in program order
RECURSIVE SequentialRun(_, _, _, _, _)
SequentialRun(regs, image, pc, limit, wide) ==
    IF PastEnd(pc, limit) THEN regs
    ELSE SequentialRun(SequentialStep(regs, get_instruction(image, pc), wide),
                       image, pc + 4, limit, wide)

Drained == is_pipeline_empty(cpu) /\ PastEnd(PC, maxPC)

\* C5: for a program of integer R-type, I-type and LUI instructions only, once
\* every instruction has been fetched and the pipeline is empty, the register
\* file equals the one obtained by executing the instructions one at a time in
\* program order from the all-zero register file.
C5_SequentialEquivalence ==
    Drained =>
        \E wide \in WideShiftOutcomes :
            registers = SequentialRun([i \in 0..31 |-> 0], instMem, 0, maxPC, wide)

\* C5 witness: a drained five-instruction program whose last instruction read
\* t0 four instructions after its producer, with results that depend on it
\* (addi t0; lui; lui; lui; add a0, t0, t1 gives a0 = 5 + 4096).
C5_Witness ==
    /\ Drained
    /\ maxPC = 20
    /\ get_instruction(instMem, 0) = IType(5, 5, 0, 5, 19)
    /\ get_instruction(instMem, 4) = UType(1, 6, 55)
    /\ get_instruction(instMem, 8) = UType(1, 6, 55)
    /\ get_instruction(instMem, 12) = UType(1, 6, 55)
    /\ get_instruction(instMem, 16) = RType(0, 6, 5, 0, 10)
    /\ registers[10] = 4101

\* the operands EX would select if snapshots with valid = FALSE were ignored
InertState ==
    LET sel(rs, data) ==
            IF ex_mem_prev.valid /\ ex_mem_prev.regWrite /\ ex_mem_prev.rd # 0
               /\ ex_mem_prev.rd = rs
            THEN ex_mem_prev.alu_result
            ELSE IF mem_wb_prev.valid /\ mem_wb_prev.regWrite /\ mem_wb_prev.rd # 0
                    /\ mem_wb_prev.rd = rs
            THEN (IF mem_wb_prev.memToReg THEN mem_wb_prev.mem_data
                  ELSE mem_wb_prev.alu_result)
            ELSE data
    IN  ex.ran =>
          /\ ReadsRs1(ex.id) => ex.operand1 = sel(ex.id.rs1, ex.id.rs1_data)
          /\ ReadsRs2(ex.id) => ex.operand2 = sel(ex.id.rs2, ex.id.rs2_data)
          /\ ex.forwarded_rs2_data = sel(ex.id.rs2, ex.id.rs2_data)

\* C6: a latch with valid = FALSE contributes nothing downstream: an EX/MEM or
\* MEM/WB snapshot with valid = FALSE supplies no operand to EX; an invalid
\* MEM/WB writes no register and retires nothing, an invalid EX/MEM accesses
\* no memory and leaves MEM/WB invalid, an invalid ID/EX runs no EX, and an
\* invalid IF/ID counts no instruction.
C6_InvalidLatchInert ==
    /\ []InertState
    /\ [][~mem_wb.valid =>
             /\ registers' = registers
             /\ stats_'.instructions_retired = stats_.instructions_retired]_vars
    /\ [][~ex_mem.valid =>
             /\ dmem_' = dmem_ /\ ~mem_wb'.valid
             /\ stats_'.memory_reads = stats_.memory_reads
             /\ stats_'.memory_writes = stats_.memory_writes]_vars
    /\ [][~id_ex.valid =>
             /\ ~ex'.ran /\ ~ex_mem'.valid
             /\ stats_'.branch_mispredictions = stats_.branch_mispredictions
             /\ stats_'.branch_taken_count = stats_.branch_taken_count
             /\ stats_'.branch_not_taken_count = stats_.branch_not_taken_count]_vars
    /\ [][~if_id.valid =>
             /\ ~id_ex'.valid
             /\ stats_'.total_instructions = stats_.total_instructions]_vars

(* ----------------------------------------------------------------------- *)
(* Programs with conditional branches and jumps, under each predictor       *)
(* ----------------------------------------------------------------------- *)

BranchLen == 3
BranchCycles == 10

\* s0 is x8, the register C.BEQZ / C.BNEZ name with r = 0; it stays 0
BranchInstrs ==
    { IType(1, 5, 0, 5, 19),        \* addi   t0, t0, 1
      BType(8, 0, 5, 0),            \* beq    t0, zero, +8
      BType(-4, 0, 5, 1),           \* bne    t0, zero, -4
      CBType(7, 0, 4),              \* c.bnez s0, +8   (never taken)
      CBType(6, 0, 2),              \* c.beqz s0, +4   (always taken)
      JType(8, 0) }                 \* jal    zero, +8

PredictorKinds == {"none", "AlwaysNotTaken", "AlwaysTaken", "Bimodal"}

InitBranch ==
    \E prog \in SeqsUpTo(BranchInstrs, BranchLen) :
        \E kind \in PredictorKinds : Loaded(prog, kind)

NextBranch == stepSimulation(BranchCycles)

SpecBranch == InitBranch /\ [][NextBranch]_vars

FlushSameTickState ==
    /\ ~pipeline_flush
    /\ id_flush => /\ ~if_id.valid
                   /\ ~ex.flush
                   /\ id_ex.valid /\ id_ex.opcode = 99 /\ id_ex.branch
                   /\ branch_predicted_taken_
                   /\ PC = Add32(id_ex.pc, id_ex.immediate)
    /\ ex.flush => /\ ~id_ex.valid
                   /\ ~id_flush
                   /\ ex.mispredicted \/ ex.id.opcode \in {103, 111}
                   /\ if_id.valid \/ PC # ex.pc => if_id.pc = ex.pc

C8_FlushIffMispredicted ==
    [][id_ex.valid /\ id_ex.branch /\ id_ex.opcode = 99 =>
          /\ ex'.ran
          /\ ex'.mispredicted <=> (ex'.should_branch # branch_predicted_taken_)
          /\ ex'.flush <=> (ex'.should_branch # branch_predicted_taken_)
          /\ ex'.should_branch = branch_predicted_taken_ =>
                /\ ex'.pc = PC
                /\ stats_'.branch_mispredictions = stats_.branch_mispredictions
          /\ branch_predictor_.kind # "none" => branch_pc_ = id_ex.pc]_vars

\* C8 witness: EX resolved a taken branch that ID had predicted taken, and
\* asserted no flush.
C8_Witness ==
    /\ ex.ran /\ ex.id.branch /\ ex.id.opcode = 99
    /\ ex.should_branch /\ ~ex.mispredicted /\ ~ex.flush
    /\ stats_.branch_taken_count > 0

\* C9: when EX resolves a conditional branch whose outcome differs from the
\* recorded prediction, the PC becomes branch PC + immediate if the branch is
\* taken and otherwise the address of the next instruction in memory (branch
\* PC + 2 for a compressed branch, + 4 for a 32-bit one); the flush is
\* asserted and branch_mispredictions grows by exactly 1.
C9_MispredictionRecovery ==
    [][/\ id_ex.valid /\ id_ex.branch /\ id_ex.opcode = 99
       /\ ex'.should_branch # branch_predicted_taken_
       => /\ ex'.pc = IF ex'.should_branch THEN Add32(id_ex.pc, id_ex.immediate)
                      ELSE Add32(id_ex.pc, IF id_ex.is_compressed THEN 2 ELSE 4)
          /\ ex'.flush
          /\ stats_'.branch_mispredictions = stats_.branch_mispredictions + 1]_vars

(* ----------------------------------------------------------------------- *)
(* Loops closed by one always-taken backward branch, bimodal predictor      *)
(* ----------------------------------------------------------------------- *)

LoopLen == 2
LoopCycles == 18

LoopInstrs ==
    { IType(1, 5, 0, 5, 19),        \* addi t0, t0, 1
      RType(0, 5, 10, 0, 10) }      \* add  a0, a0, t0

LoopBodies == {<< >>} \cup SeqsUpTo(LoopInstrs, LoopLen)

\* the body followed by a branch back to its first instruction:
\* beq zero, zero or bge t0, zero (t0 counts up from 0), both always taken
LoopPrograms ==
    { Append(body, BType(-4 * Len(body), 0, b[1], b[2])) :
          body \in LoopBodies, b \in {<< 0, 0 >>, << 5, 5 >>} }

InitLoop == \E prog \in LoopPrograms : Loaded(prog, "Bimodal")

NextLoop == stepSimulation(LoopCycles)

SpecLoop == InitLoop /\ [][NextLoop]_vars

\* C10: with the bimodal predictor, a branch at a fixed PC that is taken on
\* every execution is mispredicted on its first execution and never again:
\* branch_mispredictions is 0 before the first execution and 1 ever after,
\* while branch_taken_count grows by one per execution.
C10_MispredictedOnce ==
    /\ [](/\ stats_.branch_not_taken_count = 0
          /\ stats_.branch_mispredictions =
                 IF stats_.branch_taken_count = 0 THEN 0 ELSE 1
          /\ branch_predictor_.incorrect = stats_.branch_mispredictions
          /\ branch_predictor_.correct + branch_predictor_.incorrect
                 = stats_.branch_taken_count)
    /\ [][/\ stats_'.branch_taken_count
                 = stats_.branch_taken_count
                   + (IF id_ex.valid /\ id_ex.opcode = 99 THEN 1 ELSE 0)
          /\ id_ex.valid /\ id_ex.opcode = 99 =>
                 ex'.mispredicted = (stats_.branch_taken_count = 0)]_vars

\* C10 witness: the loop branch has been taken four times and was
\* mispredicted once.
C10_Witness ==
    /\ stats_.branch_taken_count = 4
    /\ stats_.branch_mispredictions = 1
    /\ branch_predictor_.kind = "Bimodal"
    /\ ex.ran /\ ex.id.opcode = 99 /\ ex.should_branch /\ ~ex.mispredicted

(* ----------------------------------------------------------------------- *)
(* Aligned, in-extent calls on each cache variant                           *)
(* ----------------------------------------------------------------------- *)

CoherentCalls == 5

\* direct-mapped, 2 lines of 32 bytes; fully associative, 2 lines of 16 bytes;
\* 2-way set-associative, 2 sets, lines of 16 bytes
SmallCaches ==
    { DirectMappedCache(64, 32), FullyAssociativeCache(32, 16),
      SetAssociativeCache(64, 16, 2) }

\* << addr, size >> of the loads tried on a cache of the kind
CoherentLoads(kind) ==
    IF kind = "DirectMapped"
    THEN { << 0, 4 >>, << 4, 4 >>, << 28, 4 >>, << 32, 4 >>, << 64, 4 >> }
    ELSE IF kind = "FullyAssociative"
    THEN { << 0, 4 >>, << 16, 4 >>, << 32, 4 >>, << 5, 1 >> }
    ELSE { << 0, 4 >>, << 16, 4 >>, << 32, 4 >>, << 48, 4 >>, << 64, 4 >>,
           << 96, 4 >> }

\* << addr, data, size >> of the stores tried on a cache of the kind
CoherentStores(kind) ==
    IF kind = "DirectMapped"
    THEN { << 4, 16909060, 4 >>, << 66, 65535, 2 >> }
    ELSE IF kind = "FullyAssociative"
    THEN { << 4, 16909060, 4 >>, << 5, 255, 1 >> }
    ELSE { << 4, 16909060, 4 >> }

InitCoherent ==
    \E cache \in SmallCaches : LoadedWith(<< >>, "none", cache)

NextCoherent ==
    \/ \E a \in CoherentLoads(dmem_.cache.kind) : load(a[1], a[2], CoherentCalls)
    \/ \E a \in CoherentStores(dmem_.cache.kind) : store(a[1], a[2], a[3], CoherentCalls)

SpecCoherent == InitCoherent /\ [][NextCoherent]_vars

\* the last call made on the device
Last == calls[Len(calls)]

\* the address of the first byte of the line a valid index holds
LineBaseOf(c, idx) ==
    IF c.kind = "SetAssociative"
    THEN (TagAt(c, idx) * c.numSets_ + idx \div c.associativity_) * c.lineSize_
    ELSE TagAt(c, idx) * c.lineSize_

\* the low size bytes of a stored value
Truncated(v, size) == IF size = 4 THEN v ELSE v % (2^(8 * size))

\* C11: after any sequence of aligned in-extent loads and stores through a
\* cache of any variant, every valid line's bytes equal the RAM's bytes over
\* the line's address range; every call succeeds, a load returns what the RAM
\* holds, and a stored value is what a load issued to the RAM returns.
C11_CacheCoherent ==
    /\ \A idx \in dmem_.cache.valids_ :
          \A b \in 0..dmem_.cache.lineSize_ - 1 :
              MemByte(dmem_.cache.data_, idx * dmem_.cache.lineSize_ + b)
                  = MemByte(dmem_.ram, LineBaseOf(dmem_.cache, idx) + b)
    /\ calls # << >> =>
          /\ Last.ok
          /\ Last.op = "load" =>
                Last.value = RamLoad(dmem_.ram, Last.addr, Last.size).data
          /\ Last.op = "store" =>
                RamLoad(dmem_.ram, Last.addr, Last.size).data
                    = Truncated(Last.data, Last.size)

\* C11 witness: on the direct-mapped cache a word was stored at 4, its line
\* was evicted by the line of 64 and filled again, and the load of 4 returned
\* the stored word.
C11_Witness ==
    /\ dmem_.cache.kind = "DirectMapped"
    /\ dmem_.cache.misses_ >= 3
    /\ Len(calls) >= 3
    /\ Last.op = "load" /\ Last.addr = 4 /\ Last.value = 16909060
    /\ 0 \in dmem_.cache.valids_
    /\ MemByte(dmem_.cache.data_, 4) = 4

(* ----------------------------------------------------------------------- *)
(* Calls on the RAM and on each cache variant, misaligned and out-of-extent *)
(* ones included                                                            *)
(* ----------------------------------------------------------------------- *)

CacheCalls == 4

\* the device kinds: the RAM alone, and the RAM behind each small cache
Devices == {NoCache} \cup SmallCaches

\* << addr, size >>: aligned loads, the halfword at 1 (misaligned, inside its
\* line), the word at RamSize (outside the RAM) and, on the RAM alone, the
\* word at RamSize - 2 (partly outside)
CacheLoads(kind) ==
    IF kind = "none"
    THEN { << 0, 4 >>, << 1, 2 >>, << 65536, 4 >>, << 65534, 4 >> }
    ELSE IF kind = "DirectMapped"
    THEN { << 0, 4 >>, << 4, 4 >>, << 28, 4 >>, << 32, 4 >>, << 1, 2 >>,
           << 65536, 4 >> }
    ELSE { << 0, 4 >>, << 16, 4 >>, << 32, 4 >>, << 1, 2 >>, << 65536, 4 >> }

\* << addr, data, size >>: an aligned store, the word at 6 (misaligned, inside
\* its line) and the word at RamSize
CacheStores(kind) ==
    { << 4, 16909060, 4 >>, << 6, 84281096, 4 >>, << 65536, 16909060, 4 >> }

InitCache == \E cache \in Devices : LoadedWith(<< >>, "none", cache)

NextCache ==
    \/ \E a \in CacheLoads(dmem_.cache.kind) : load(a[1], a[2], CacheCalls)
    \/ \E a \in CacheStores(dmem_.cache.kind) : store(a[1], a[2], a[3], CacheCalls)

SpecCache == InitCache /\ [][NextCache]_vars

\* the line of the address is in the cache
Resident(c, addr) == HitWay(c, decode(c, addr).set, decode(c, addr).tag) >= 0

\* C12: every load or store call on a cache raises hits + misses by exactly
\* 1: hits when the addressed line is resident, misses otherwise, also when
\* the fill then fails; after a successful call the line is resident, so the
\* next access to it hits; on the direct-mapped cache with 32-byte lines the
\* loads 0, 4, 28, 32 give hits = 2 and misses = 2.
C12_CountsEveryCall ==
    /\ [][calls' # calls /\ dmem_.cache.kind # "none" =>
            /\ dmem_'.cache.hits_ + dmem_'.cache.misses_
                   = dmem_.cache.hits_ + dmem_.cache.misses_ + 1
            /\ dmem_'.cache.hits_ = dmem_.cache.hits_
                   + (IF Resident(dmem_.cache, calls'[Len(calls')].addr) THEN 1 ELSE 0)
            /\ calls'[Len(calls')].ok =>
                   Resident(dmem_'.cache, calls'[Len(calls')].addr)]_vars
    /\ [](/\ dmem_.cache.kind = "DirectMapped" /\ dmem_.cache.lineSize_ = 32
          /\ Len(calls) = 4
          /\ \A i \in 1..4 : calls[i].op = "load" /\ calls[i].size = 4
          /\ << calls[1].addr, calls[2].addr, calls[3].addr, calls[4].addr >>
                 = << 0, 4, 28, 32 >>
          => dmem_.cache.hits_ = 2 /\ dmem_.cache.misses_ = 2)

(* ----------------------------------------------------------------------- *)
(* Programs with loads and stores, the processor behind each host cache     *)
(* ----------------------------------------------------------------------- *)

MemLen == 3
MemCycles == 10

\* t0 is x5, a0 is x10
MemInstrs ==
    { IType(42, 0, 0, 10, 19),      \* addi a0, zero, 42
      SType(8, 10, 0, 2),           \* sw   a0, 8(zero)
      IType(8, 0, 2, 5, 3),         \* lw   t0, 8(zero)
      IType(6, 0, 2, 5, 3),         \* lw   t0, 6(zero)    (misaligned)
      SType(9, 10, 0, 1),           \* sh   a0, 9(zero)    (misaligned)
      IType(-4, 0, 2, 5, 3),        \* lw   t0, -4(zero)   (out of range)
      RType(0, 0, 5, 0, 10) }       \* add  a0, t0, zero

\* the caches the host builds: 4 KiB, 32-byte lines
HostCaches ==
    { DirectMappedCache(4096, 32), FullyAssociativeCache(4096, 32),
      SetAssociativeCache(4096, 32, 2) }

InitMem ==
    \E prog \in SeqsUpTo(MemInstrs, MemLen) :
        \E cache \in HostCaches : LoadedWith(prog, "none", cache)

NextMem == stepSimulation(MemCycles)

SpecMem == InitMem /\ [][NextMem]_vars

\* the AccessSize of the memory operation in an EX/MEM latch, 0 when it has none
MemBytes(em) ==
    IF em.memRe THEN ReadBytes(IF em.memReadType = 6 THEN 5 ELSE em.memReadType)
    ELSE IF em.memWr THEN (IF em.memWriteType = 4 THEN 4 ELSE WriteBytes(em.memWriteType))
    ELSE 0

\* a load or store is in MEM this tick
MemOp(em) == em.valid /\ (em.memRe \/ em.memWr)

\* ... and its address is inside the data memory and a multiple of its width
AlignedMemOp(em) ==
    /\ MemOp(em) /\ MemBytes(em) > 0
    /\ em.alu_result >= 0 /\ em.alu_result < 4096
    /\ em.alu_result % MemBytes(em) = 0

Associative(c) == c.kind \in {"FullyAssociative", "SetAssociative"}

\* the elements of a sequence
Range(list) == { list[i] : i \in 1..Len(list) }

\* C14: in the fully associative and the set-associative cache the LRU list
\* of every set is at all times a permutation of the set's ways, and after
\* every successful load or store the way that holds the accessed line is at
\* the most-recently-used position of its set's list.
C14_LruPermutation ==
    /\ [](Associative(dmem_.cache) =>
            \A set \in 0..dmem_.cache.numSets_ - 1 :
                /\ Len(dmem_.cache.lruLists_[set]) = dmem_.cache.associativity_
                /\ Range(dmem_.cache.lruLists_[set]) = 0..dmem_.cache.associativity_ - 1)
    /\ [][calls' # calls /\ Associative(dmem_.cache) /\ calls'[Len(calls')].ok =>
            /\ Resident(dmem_'.cache, calls'[Len(calls')].addr)
            /\ dmem_'.cache.lruLists_[decode(dmem_'.cache, calls'[Len(calls')].addr).set][1]
                   = HitWay(dmem_'.cache,
                            decode(dmem_'.cache, calls'[Len(calls')].addr).set,
                            decode(dmem_'.cache, calls'[Len(calls')].addr).tag)]_vars

\* lines 0 and 16 were filled into ways 1 and 0, then a hit on line 0 moved
\* way 1 back to the front
C14_Witness ==
    /\ dmem_.cache.kind = "FullyAssociative"
    /\ Len(calls) = 3 /\ Last.ok /\ Last.addr = 0
    /\ dmem_.cache.hits_ = 1 /\ dmem_.cache.misses_ = 2
    /\ dmem_.cache.valids_ = {0, 1}
    /\ dmem_.cache.lruLists_[0] = << 1, 0 >>

\* the position in calls of the latest successful call on the line with the
\* tag, 0 when there is none
RECURSIVE LastAccess(_, _, _)
LastAccess(c, tag, i) ==
    IF i = 0 THEN 0
    ELSE IF calls[i].ok /\ decode(c, calls[i].addr).tag = tag THEN i
    ELSE LastAccess(c, tag, i - 1)

\* the valid line at idx is the one whose latest access is the oldest
Oldest(c, idx) ==
    \A j \in c.valids_ :
        LastAccess(c, TagAt(c, idx), Len(calls)) <= LastAccess(c, TagAt(c, j), Len(calls))

\* C15: when a miss occurs in a full fully associative cache of n lines, the
\* line evicted is exactly the resident line whose most recent access is the
\* oldest and every other resident line stays; so after n + 1 accesses to
\* n + 1 distinct lines of an empty cache the line accessed first is gone.
C15_EvictsLeastRecent ==
    /\ [][/\ calls' # calls /\ dmem_.cache.kind = "FullyAssociative"
          /\ Cardinality(dmem_.cache.valids_) = dmem_.cache.numLines_
          /\ ~Resident(dmem_.cache, calls'[Len(calls')].addr)
          /\ calls'[Len(calls')].ok
          => \A idx \in dmem_.cache.valids_ :
                 HitWay(dmem_'.cache, 0, TagAt(dmem_.cache, idx)) >= 0
                     <=> ~Oldest(dmem_.cache, idx)]_vars
    /\ [](/\ dmem_.cache.kind = "FullyAssociative"
          /\ Len(calls) = dmem_.cache.numLines_ + 1
          /\ \A i \in 1..Len(calls) : calls[i].ok
          /\ \A i, j \in 1..Len(calls) :
                 i # j => decode(dmem_.cache, calls[i].addr).tag
                              # decode(dmem_.cache, calls[j].addr).tag
          => ~Resident(dmem_.cache, calls[1].addr))

\* C16: in the k-way set-associative cache the valid ways of every set hold
\* pairwise distinct tags: no line is resident in two ways.
C16_DistinctTags ==
    dmem_.cache.kind = "SetAssociative" =>
        \A set \in 0..dmem_.cache.numSets_ - 1 :
            \A v, w \in 0..dmem_.cache.associativity_ - 1 :
                /\ v # w
                /\ set * dmem_.cache.associativity_ + v \in dmem_.cache.valids_
                /\ set * dmem_.cache.associativity_ + w \in dmem_.cache.valids_
                => TagAt(dmem_.cache, set * dmem_.cache.associativity_ + v)
                       # TagAt(dmem_.cache, set * dmem_.cache.associativity_ + w)

\* five accesses to the lines of set 0: both ways filled, a line evicted, a hit
C16_Witness ==
    /\ dmem_.cache.kind = "SetAssociative"
    /\ {0, 1} \subseteq dmem_.cache.valids_
    /\ Len(calls) = 5
    /\ \A i \in 1..5 : decode(dmem_.cache, calls[i].addr).set = 0
    /\ dmem_.cache.hits_ = 1 /\ dmem_.cache.misses_ = 4

\* the 2-way set-associative cache with 2 sets and 16-byte lines
TwoWayTwoSets ==
    /\ dmem_.cache.kind = "SetAssociative"
    /\ dmem_.cache.associativity_ = 2 /\ dmem_.cache.numSets_ = 2
    /\ dmem_.cache.lineSize_ = 16

\* the calls so far are word loads at exactly these addresses on that cache
LoadsOf(addrs) ==
    /\ TwoWayTwoSets
    /\ Len(calls) = Len(addrs)
    /\ \A i \in 1..Len(calls) :
           calls[i].op = "load" /\ calls[i].size = 4 /\ calls[i].addr = addrs[i]

\* C17 as the specification states it: the line bases 0, 16, 32, 48 all map
\* to set 0, so of the loads 0, 16, 32, 48, 0 the last misses again:
\* hits = 0, misses = 5.
C17_FourLinesOneSet ==
    LoadsOf(<< 0, 16, 32, 48, 0 >>) =>
        /\ \A a \in {0, 16, 32, 48} : decode(dmem_.cache, a).set = 0
        /\ dmem_.cache.hits_ = 0 /\ dmem_.cache.misses_ = 5

\* C17: the line bases 0, 32, 64, 96 all map to set 0 (0, 16, 32, 48 map to
\* the sets 0, 1, 0, 1), so of the loads 0, 32, 64, 96, 0 the last misses
\* again, hits = 0 and misses = 5, while the loads 0, 16, 32, 48, 0 end with
\* a hit, hits = 1 and misses = 4.
C17_FourLinesOfSetZero ==
    /\ TwoWayTwoSets =>
           /\ \A a \in {0, 32, 64, 96} : decode(dmem_.cache, a).set = 0
           /\ \A a \in {16, 48} : decode(dmem_.cache, a).set = 1
    /\ LoadsOf(<< 0, 32, 64, 96 >>) => Resident(dmem_.cache, 64) /\ ~Resident(dmem_.cache, 0)
    /\ LoadsOf(<< 0, 32, 64, 96, 0 >>) =>
           dmem_.cache.hits_ = 0 /\ dmem_.cache.misses_ = 5
    /\ LoadsOf(<< 0, 16, 32, 48 >>) => Resident(dmem_.cache, 0)
    /\ LoadsOf(<< 0, 16, 32, 48, 0 >>) =>
           dmem_.cache.hits_ = 1 /\ dmem_.cache.misses_ = 4

C17_Witness ==
    /\ LoadsOf(<< 0, 32, 64, 96, 0 >>)
    /\ dmem_.cache.misses_ = 5
    /\ Last.ok /\ Resident(dmem_.cache, 0) /\ ~Resident(dmem_.cache, 64)

\* the call is misaligned for its width / reaches outside the RAM
Misaligned(call) == call.addr % call.size # 0
OutOfExtent(call) == call.addr + call.size > RamSize

\* C18: on the RAM and on every cache a load or store that is misaligned for
\* its width or reaches outside the device's extent returns ok = false and
\* changes no stored byte.
C18_RejectsBadAddress ==
    [][/\ calls' # calls
       /\ Misaligned(calls'[Len(calls')]) \/ OutOfExtent(calls'[Len(calls')])
       => /\ ~calls'[Len(calls')].ok
          /\ dmem_'.ram = dmem_.ram
          /\ dmem_'.cache.data_ = dmem_.cache.data_]_vars

\* the line of the address is not in the cache and one of the word loads
\* that would fill it fails
FillFails(dev, addr) ==
    /\ dev.cache.kind # "none"
    /\ ~Resident(dev.cache, addr)
    /\ \E i \in 0..(dev.cache.lineSize_ \div 4) - 1 :
           ~RamLoad(dev.ram, decode(dev.cache, addr).lineBase + 4 * i, 4).ok

\* C19: when the fill of a missing line fails, the access returns ok = false
\* and leaves the cache's lines (valid bits, tags, data) and the LRU order of
\* the set exactly as they were before the access.
C19_FailedFillNoChange ==
    [][calls' # calls /\ FillFails(dmem_, calls'[Len(calls')].addr) =>
          /\ ~calls'[Len(calls')].ok
          /\ dmem_'.cache.valids_ = dmem_.cache.valids_
          /\ dmem_'.cache.tags_ = dmem_.cache.tags_
          /\ dmem_'.cache.data_ = dmem_.cache.data_
          /\ dmem_'.cache.lruLists_ = dmem_.cache.lruLists_]_vars

\* the load or store in MEM this tick has an address that is misaligned for
\* its width
MisalignedMemOp(em) ==
    /\ MemOp(em) /\ MemBytes(em) \in {2, 4}
    /\ em.alu_result % MemBytes(em) # 0

\* C20: a load or store whose effective address is misaligned for its width
\* is absorbed as a no-op: the tick in which it is in MEM leaves the data
\* memory and every cache line as they were, a load delivers 0 as the loaded
\* value, and the pipeline keeps executing: the operation moves on to MEM/WB,
\* the instruction behind it is executed, and once the pipeline has drained
\* every instruction of the program has retired.
C20_MisalignedNoOp ==
    /\ [][currentCycle_' # currentCycle_ /\ MisalignedMemOp(ex_mem) =>
            /\ dmem_'.ram = dmem_.ram
            /\ dmem_'.cache.data_ = dmem_.cache.data_
            /\ dmem_'.cache.tags_ = dmem_.cache.tags_
            /\ dmem_'.cache.valids_ = dmem_.cache.valids_
            /\ mem_wb'.valid /\ mem_wb'.pc = ex_mem.pc
            /\ ex_mem.memRe => mem_wb'.mem_data = 0
            /\ id_ex.valid => ex_mem'.valid /\ ex_mem'.pc = id_ex.pc]_vars
    /\ [](Drained /\ currentCycle_ > 0 => stats_.instructions_retired * 4 = maxPC)

\* the store wrote 42 at 8, then the misaligned word load at 6 passed MEM
\* with 0 as its value
C20_Witness ==
    /\ MemByte(dmem_.ram, 8) = 42
    /\ mem_wb.valid /\ mem_wb.memToReg /\ mem_wb.alu_result = 6
    /\ mem_wb.mem_data = 0
    /\ dmem_.cache.kind = "DirectMapped" /\ dmem_.cache.valids_ = {0}

(* ----------------------------------------------------------------------- *)
(* Programs with undecodable 32-bit instructions                            *)
(* ----------------------------------------------------------------------- *)

UndecLen == 3
UndecCycles == 10

\* t0 is x5, t1 is x6, a0 is x10
UndecodableInstrs ==
    { UType(0, 10, 127),            \* opcode 0x7F, not an opcode of the decoder
      RType(2, 5, 5, 0, 10),        \* opcode 0x33 with funct7 = 2, rd = a0
      IType(8, 0, 3, 6, 3),         \* load opcode with funct3 = 3, rd = t1
      SType(8, 5, 0, 3) }           \* store opcode with funct3 = 3

UndecInstrs ==
    { IType(3, 0, 0, 5, 19),        \* addi t0, zero, 3
      IType(7, 0, 0, 6, 19) }       \* addi t1, zero, 7
    \cup UndecodableInstrs

InitUndec == \E prog \in SeqsUpTo(UndecInstrs, UndecLen) : Loaded(prog, "none")

NextUndec == stepSimulation(UndecCycles)

SpecUndec == InitUndec /\ [][NextUndec]_vars

\* C21: an undecodable 32-bit instruction is treated as a NOP: ID leaves the
\* ID/EX latch invalid in the tick it decodes it, and no integer register and
\* no memory byte is ever changed by it.  In these programs the decodable
\* instructions only set t0 to 3 and t1 to 7, so every other register stays
\* 0, t0 and t1 keep their value once set, and the data memory stays empty.
C21_UndecodableIsNop ==
    /\ [][if_id.valid /\ if_id.instruction \in UndecodableInstrs
              /\ currentCycle_' # currentCycle_ => ~id_ex'.valid]_vars
    /\ [](\A r \in 0..31 : r \notin {5, 6} => registers[r] = 0)
    /\ [][registers[5] = 3 => registers'[5] = 3]_vars
    /\ [][registers[6] = 7 => registers'[6] = 7]_vars
    /\ [](dmem_.ram = << >>)

(* ----------------------------------------------------------------------- *)
(* Word stores and loads below and above MEMORY_SIZE                        *)
(* ----------------------------------------------------------------------- *)

FarLen == 4
FarCycles == 11

\* t0 is x5, t1 is x6, a0 is x10
FarInstrs ==
    { UType(1, 6, 55),              \* lui  t1, 1          (t1 = 4096)
      IType(42, 0, 0, 10, 19),      \* addi a0, zero, 42
      SType(0, 10, 6, 2),           \* sw   a0, 0(t1)
      IType(0, 6, 2, 5, 3),         \* lw   t0, 0(t1)
      SType(8, 10, 0, 2),           \* sw   a0, 8(zero)
      IType(8, 0, 2, 5, 3) }        \* lw   t0, 8(zero)

InitFar ==
    \E prog \in SeqsUpTo(FarInstrs, FarLen) :
        \E cache \in {NoCache, DirectMappedCache(4096, 32)} :
            LoadedWith(prog, "none", cache)

NextFar == stepSimulation(FarCycles)

SpecFar == InitFar /\ [][NextFar]_vars

\* One instruction executed on its own on the registers and a word memory
\* (the words that differ from 0, by address): sw stores rs2 at rs1 + imm,
\* lw loads rd from rs1 + imm, every other instruction acts on the registers.
SequentialAccess(st, d, address, instruction) ==
    IF d.memWr /\ d.memWriteType = 3
    THEN [st EXCEPT !.mem = StoreByte(@, address, st.regs[d.rs2])]
    ELSE IF d.memRe /\ d.memReadType = 5
    THEN [st EXCEPT !.regs = IF d.rd = 0 THEN @
                             ELSE [@ EXCEPT ![d.rd] = MemByte(st.mem, address)]]
    ELSE [st EXCEPT !.regs = SequentialStep(@, instruction, 0)]

SequentialMemStep(st, instruction) ==
    SequentialAccess(st, decode_instruction(instruction),
                     Add32(st.regs[Field(instruction, 15, 5)],
                           generate_immediate(instruction, Field(instruction, 0, 7))),
                     instruction)

RECURSIVE SequentialMemRun(_, _, _, _)
SequentialMemRun(st, image, pc, limit) ==
    IF PastEnd(pc, limit) THEN st
    ELSE SequentialMemRun(SequentialMemStep(st, get_instruction(image, pc)),
                          image, pc + 4, limit)

\* C22: for a 4-byte-aligned address inside the 64 KiB RAM, a sw of v followed
\* later in program order by a lw from the same address writes v to the
\* load's destination register: once the program has drained, t0 (the
\* destination of every lw of these programs) holds what executing the
\* program in order on a word memory gives it.
C22_StoreThenLoad ==
    Drained =>
        registers[5] = SequentialMemRun([regs |-> [i \in 0..31 |-> 0], mem |-> << >>],
                                        instMem, 0, maxPC).regs[5]

(* ----------------------------------------------------------------------- *)
(* Divisions and remainders on the ALU                                      *)
(* ----------------------------------------------------------------------- *)

DivCalls == 1

DivDividends == {0, 1, -1, 2, -2, 7, -7, MinInt32, MaxInt32}
DivDivisors == {0, 1, -1, 2, -2, 7, -7, MinInt32, 3}

InitDiv == Loaded(<< >>, "none")

\* aluOp 0x64 DIV, 0x65 DIVU, 0x66 REM, 0x67 REMU
NextDiv ==
    \E a \in DivDividends, b \in DivDivisors, aluOp \in 100..103 :
        execute(a, b, aluOp, 0, FALSE, DivCalls)

SpecDiv == InitDiv /\ [][NextDiv]_vars

\* the quotient of a by b rounded toward zero, b # 0 and not -2^31 / -1, from
\* the magnitudes of the operands
SignedQuotient(a, b) ==
    IF b = MinInt32 THEN (IF a = MinInt32 THEN 1 ELSE 0)
    ELSE IF a = MinInt32
         THEN (IF b > 0 THEN -((-(a + b)) \div b) - 1
               ELSE ((-(a - b)) \div (-b)) + 1)
    ELSE IF (a < 0) = (b < 0)
         THEN (IF a < 0 THEN -a ELSE a) \div (IF b < 0 THEN -b ELSE b)
    ELSE -((IF a < 0 THEN -a ELSE a) \div (IF b < 0 THEN -b ELSE b))

SignedRemainder(a, b) == a - SignedQuotient(a, b) * b

\* the halves 2 * h + l of the unsigned reading of a negative pattern
UpperHalf(a) == 1073741824 + ((a - MinInt32) \div 2)
LowBit(a) == (a - MinInt32) % 2

\* quotient and remainder of the unsigned readings, b # 0: a divisor with the
\* top bit set goes at most once; a dividend with the top bit set is divided
\* by halves (the divisors tried are far below 2^30)
UnsignedQuotient(a, b) ==
    IF b < 0 THEN (IF ULess(a, b) THEN 0 ELSE 1)
    ELSE IF a >= 0 THEN a \div b
    ELSE Add32(Add32(UpperHalf(a) \div b, UpperHalf(a) \div b),
               IF 2 * (UpperHalf(a) % b) + LowBit(a) >= b THEN 1 ELSE 0)

UnsignedRemainder(a, b) ==
    IF b < 0 THEN (IF ULess(a, b) THEN a ELSE Sub32(a, b))
    ELSE IF a >= 0 THEN a % b
    ELSE IF 2 * (UpperHalf(a) % b) + LowBit(a) >= b
         THEN 2 * (UpperHalf(a) % b) + LowBit(a) - b
         ELSE 2 * (UpperHalf(a) % b) + LowBit(a)

\* what the claim requires of a division or remainder
DivExpected(a, b, aluOp) ==
    IF b = 0 THEN (IF aluOp \in {100, 101} THEN -1 ELSE a)
    ELSE IF a = MinInt32 /\ b = -1 /\ aluOp = 100 THEN MinInt32
    ELSE IF a = MinInt32 /\ b = -1 /\ aluOp = 102 THEN 0
    ELSE IF aluOp = 100 THEN SignedQuotient(a, b)
    ELSE IF aluOp = 102 THEN SignedRemainder(a, b)
    ELSE IF aluOp = 101 THEN UnsignedQuotient(a, b)
    ELSE UnsignedRemainder(a, b)

\* C23: DIV and DIVU by 0 return the all-ones pattern, REM and REMU by 0
\* return the dividend, DIV of -2^31 by -1 returns -2^31 and REM of -2^31 by
\* -1 returns 0; every other case is the truncating 32-bit quotient or
\* remainder of the signed (DIV, REM) or unsigned (DIVU, REMU) operands.
C23_Division ==
    \A i \in 1..Len(calls) :
        calls[i].op = "execute" /\ calls[i].aluOp \in 100..103 =>
            calls[i].result = DivExpected(calls[i].operand1, calls[i].operand2,
                                          calls[i].aluOp)

\* DIV of -7 by 2 gave -3
C23_Witness ==
    /\ calls # << >>
    /\ Last.op = "execute" /\ Last.aluOp = 100
    /\ Last.operand1 = -7 /\ Last.operand2 = 2 /\ Last.result = -3

(* ----------------------------------------------------------------------- *)
(* Branch comparisons on the ALU                                            *)
(* ----------------------------------------------------------------------- *)

CompareCalls == 1

CompareOperands == {0, 1, -1, 7, -7, MinInt32, MaxInt32}

InitCompare == Loaded(<< >>, "none")

\* aluOp 0x30 BEQ, 0x31 BGE, 0x32 BGEU, 0x33 BLT, 0x34 BLTU, 0x35 BNE; the
\* build may or may not have folded the signed tests of BGE and BLT
NextCompare ==
    \E a \in CompareOperands, b \in CompareOperands, aluOp \in 48..53 :
        \E folded \in (IF aluOp \in {49, 51} THEN BOOLEAN ELSE {FALSE}) :
            execute(a, b, aluOp, 0, folded, CompareCalls)

SpecCompare == InitCompare /\ [][NextCompare]_vars

\* the condition of the conditional branch with the aluOp
BranchCondition(a, b, aluOp) ==
    IF aluOp = 48 THEN a = b
    ELSE IF aluOp = 53 THEN a # b
    ELSE IF aluOp = 49 THEN a >= b
    ELSE IF aluOp = 51 THEN a < b
    ELSE IF aluOp = 50 THEN ~ULess(a, b)
    ELSE ULess(a, b)

\* C24: for every pair of 32-bit operands the zero flag after a branch
\* comparison equals the truth of the branch condition: signed op1 < op2 for
\* BLT and signed op1 >= op2 for BGE, also when op1 - op2 overflows, the
\* unsigned comparison for BLTU and BGEU, equality for BEQ; and EX takes a
\* conditional branch exactly when its condition is true.
C24_FlagIsCondition ==
    \A i \in 1..Len(calls) :
        calls[i].op = "execute" /\ calls[i].aluOp \in 48..53 =>
            /\ calls[i].aluOp # 53 =>
                   calls[i].zero_flag
                       = BranchCondition(calls[i].operand1, calls[i].operand2,
                                         calls[i].aluOp)
            /\ ShouldBranch(calls[i].aluOp, calls[i].zero_flag)
                   = BranchCondition(calls[i].operand1, calls[i].operand2,
                                     calls[i].aluOp)

(* ----------------------------------------------------------------------- *)
(* Calls on the bimodal, gshare and tournament predictors                   *)
(* ----------------------------------------------------------------------- *)

PredictorCalls == 4

\* with a table of 2048 entries 4 uses entry 1 and 8192 (4 * 2048) wraps
\* around to entry 0; with a table of 4 entries they use entries 1 and 0
PredictorPCs == {4, 8192}

\* the predictors createBranchPredictor makes, and small ones whose history
\* register wraps around within a few updates
TablePredictors ==
    { NewPredictor("Bimodal"), NewPredictor("GShare"), NewPredictor("Tournament"),
      SizedPredictor("Bimodal", 4, 0), SizedPredictor("GShare", 4, 2),
      SizedPredictor("GShare", 4, 3), SizedPredictor("Tournament", 4, 2) }

InitPredictor == \E bp \in TablePredictors : Wired(<< >>, bp, NoCache)

NextPredictor ==
    \/ \E pc \in PredictorPCs :
           \/ predictor_predict(pc, Add32(pc, 16), PredictorCalls)
           \/ \E taken \in BOOLEAN :
                  predictor_update(pc, Add32(pc, 16), taken, PredictorCalls)
    \/ predictor_reset(PredictorCalls)

SpecPredictor == InitPredictor /\ [][NextPredictor]_vars

\* the predictor as call number j left it
PredictorAfter(j) ==
    IF j = Len(calls) THEN branch_predictor_ ELSE calls[j + 1].before

\* the number of updates among calls i..j
RECURSIVE UpdatesIn(_, _)
UpdatesIn(i, j) ==
    IF i > j THEN 0
    ELSE (IF calls[j].op = "update" THEN 1 ELSE 0) + UpdatesIn(i, j - 1)

\* calls i..j hold no reset and no update other than taken updates at pc
TakenRun(i, j, pc) ==
    \A k \in i..j :
        /\ calls[k].op # "reset"
        /\ calls[k].op = "update" => calls[k].taken /\ calls[k].pc = pc

Min(a, b) == IF a < b THEN a ELSE b

\* (PC >> 2) mod N for a table of N entries
TableIndex(pc, N) == (pc \div 4) % N

\* C25: every bimodal counter is in 0..3 and starts at 1; a taken update adds
\* one saturating at 3, a not-taken update subtracts one saturating at 0;
\* after k consecutive taken updates at one PC the counter is
\* min(3, initial + k); predict answers taken iff the counter is at least 2.
C25_BimodalCounters ==
    branch_predictor_.kind = "Bimodal" =>
        /\ \A x \in DOMAIN branch_predictor_.counters :
               branch_predictor_.counters[x] \in 0..3
        /\ calls = << >> \/ calls[Len(calls)].op = "reset" =>
               branch_predictor_.counters = << >>
        /\ \A j \in 1..Len(calls) :
               LET c == calls[j]
                   index == TableIndex(c.pc, c.before.table_size_)
                   old == Counter(c.before, index)
                   new == Counter(PredictorAfter(j), index)
               IN  /\ c.op = "update" /\ c.taken =>
                          new = IF old = 3 THEN 3 ELSE old + 1
                   /\ c.op = "update" /\ ~c.taken =>
                          new = IF old = 0 THEN 0 ELSE old - 1
                   /\ c.op = "update" =>
                          PredictorAfter(j).counters = SetCounter(c.before, index, new)
                   /\ c.op = "predict" =>
                          /\ c.taken = (old >= 2)
                          /\ PredictorAfter(j) = c.before
        /\ \A i \in 1..Len(calls) : \A j \in i..Len(calls) :
               \A pc \in PredictorPCs :
                   TakenRun(i, j, pc) =>
                       Counter(PredictorAfter(j),
                               TableIndex(pc, branch_predictor_.table_size_))
                           = Min(3, Counter(calls[i].before,
                                            TableIndex(pc, branch_predictor_.table_size_))
                                        + UpdatesIn(i, j))

\* C25 witness: three taken updates at one PC took the counter of entry 0
\* from 1 to 3, where a fourth one left it
C25_Witness ==
    /\ branch_predictor_.kind = "Bimodal"
    /\ branch_predictor_.table_size_ = BimodalTableSize
    /\ Len(calls) = 4
    /\ \A j \in 1..4 : calls[j].op = "update" /\ calls[j].taken /\ calls[j].pc = 8192
    /\ Counter(calls[1].before, 0) = 1
    /\ Counter(calls[4].before, 0) = 3
    /\ Counter(branch_predictor_, 0) = 3

\* bitwise exclusive or of two natural numbers
RECURSIVE XorNat(_, _)
XorNat(a, b) ==
    IF a = 0 THEN b
    ELSE IF b = 0 THEN a
    ELSE ((a + b) % 2) + 2 * XorNat(a \div 2, b \div 2)

\* ((PC >> 2) XOR history) mod N
HistoryIndex(pc, history, N) == XorNat(pc \div 4, history) % N

\* a 2-bit counter moved one saturating step
Saturating(c, up) ==
    IF up THEN (IF c = 3 THEN 3 ELSE c + 1) ELSE (IF c = 0 THEN 0 ELSE c - 1)

\* C27: the gshare history register is 0 after construction and after
\* reset, is always below 2^h, and after each update is
\* ((old << 1) | outcome) mod 2^h; the counter an update modifies is the one
\* at index ((PC >> 2) XOR history before the update) mod N, the entry predict
\* reads.
C27_GShareHistory ==
    branch_predictor_.kind = "GShare" =>
        /\ calls = << >> \/ calls[Len(calls)].op = "reset" =>
               branch_predictor_.ghr_ = 0
        /\ branch_predictor_.ghr_ \in 0..(2 ^ branch_predictor_.history_bits_ - 1)
        /\ \A j \in 1..Len(calls) :
               LET c == calls[j]
                   after == PredictorAfter(j)
                   index == HistoryIndex(c.pc, c.before.ghr_, c.before.table_size_)
               IN  /\ c.op = "update" =>
                          /\ after.ghr_ = (2 * c.before.ghr_ + (IF c.taken THEN 1 ELSE 0))
                                              % (2 ^ c.before.history_bits_)
                          /\ Counter(after, index)
                                 = Saturating(Counter(c.before, index), c.taken)
                          /\ after.counters
                                 = SetCounter(c.before, index, Counter(after, index))
                   /\ c.op = "predict" =>
                          /\ c.taken = (Counter(c.before, index) >= 2)
                          /\ after = c.before

\* C27 witness: with a 2-bit history and 4 counters, four taken updates at
\* PC 4 trained entries 1, 0, 2 and 2, the history going 0, 1, 3, 3, 3
C27_Witness ==
    /\ branch_predictor_.kind = "GShare"
    /\ branch_predictor_.history_bits_ = 2
    /\ Len(calls) = 4
    /\ \A j \in 1..4 : calls[j].op = "update" /\ calls[j].taken /\ calls[j].pc = 4
    /\ calls[3].before.ghr_ = 3
    /\ branch_predictor_.ghr_ = 3
    /\ Counter(branch_predictor_, 0) = 2
    /\ Counter(branch_predictor_, 1) = 2
    /\ Counter(branch_predictor_, 2) = 3

\* C28: a tournament update updates both sub-predictors and then moves the
\* chooser entry at (PC >> 2) mod N one saturating step (within 0..3) toward
\* the sub-predictor that alone predicted correctly, leaving it unchanged
\* when both were right or both wrong; correctness is judged on the
\* sub-predictions made before the sub-predictors' own update.
C28_TournamentChooser ==
    branch_predictor_.kind = "Tournament" =>
        /\ \A x \in DOMAIN branch_predictor_.selectors_ :
               branch_predictor_.selectors_[x] \in 0..3
        /\ \A j \in 1..Len(calls) :
               LET c == calls[j]
                   after == PredictorAfter(j)
                   N == c.before.table_size_
                   index == TableIndex(c.pc, N)
                   bimodal_correct ==
                       (Counter(c.before.bimodal_, index) >= 2) = c.taken
                   gshare_correct ==
                       (Counter(c.before.gshare_,
                                HistoryIndex(c.pc, c.before.gshare_.ghr_, N)) >= 2)
                           = c.taken
                   sel == Selector(c.before, index)
               IN  c.op = "update" =>
                       /\ after.bimodal_ = update(c.before.bimodal_, c.pc, c.target, c.taken)
                       /\ after.gshare_ = update(c.before.gshare_, c.pc, c.target, c.taken)
                       /\ after.bimodal_.correct + after.bimodal_.incorrect
                              = c.before.bimodal_.correct + c.before.bimodal_.incorrect + 1
                       /\ after.gshare_.correct + after.gshare_.incorrect
                              = c.before.gshare_.correct + c.before.gshare_.incorrect + 1
                       /\ Selector(after, index) =
                              IF bimodal_correct /\ ~gshare_correct
                              THEN Saturating(sel, FALSE)
                              ELSE IF gshare_correct /\ ~bimodal_correct
                              THEN Saturating(sel, TRUE)
                              ELSE sel
                       /\ after.selectors_
                              = SetSelector(c.before, index, Selector(after, index))

\* C28 witness: three taken updates at PC 8192 took chooser entry 0 from 1 to
\* 0 (bimodal alone right) and left it at 0 (bimodal alone right again); a
\* not-taken update at PC 4, which both sub-predictors predicted, left
\* chooser entry 1 at 1
C28_Witness ==
    /\ branch_predictor_.kind = "Tournament"
    /\ branch_predictor_.table_size_ = 4
    /\ Len(calls) = 4
    /\ \A j \in 1..3 : calls[j].op = "update" /\ calls[j].taken /\ calls[j].pc = 8192
    /\ calls[4].op = "update" /\ ~calls[4].taken /\ calls[4].pc = 4
    /\ Selector(calls[2].before, 0) = 1
    /\ Selector(calls[3].before, 0) = 0
    /\ Selector(calls[4].before, 0) = 0
    /\ Counter(calls[3].before.bimodal_, 0) = 3
    /\ Counter(calls[3].before.gshare_, 3) = 1
    /\ calls[3].before.gshare_.ghr_ = 3
    /\ Selector(branch_predictor_, 1) = 1

(* ----------------------------------------------------------------------- *)
(* Branching programs under each predictor createBranchPredictor makes      *)
(* ----------------------------------------------------------------------- *)

TallyLen == 3
TallyCycles == 12

TallyInstrs ==
    { IType(1, 5, 0, 5, 19),        \* addi   t0, t0, 1
      BType(8, 0, 5, 0),            \* beq    t0, zero, +8
      BType(-4, 0, 5, 1),           \* bne    t0, zero, -4
      BType(-4, 0, 0, 0),           \* beq    zero, zero, -4
      CBType(7, 0, 4) }             \* c.bnez s0, +8   (never taken)

AttachedKinds == {"AlwaysNotTaken", "AlwaysTaken", "Bimodal", "GShare", "Tournament"}

InitTally ==
    \E prog \in SeqsUpTo(TallyInstrs, TallyLen) :
        \E kind \in AttachedKinds : Loaded(prog, kind)

NextTally == stepSimulation(TallyCycles)

SpecTally == InitTally /\ [][NextTally]_vars

\* C26: with any predictor attached, after any number of ticks the
\* predictor's correct and incorrect predictions add up to the conditional
\* branches EX has resolved (branch_taken_count + branch_not_taken_count;
\* total_predictions() is by definition correct + incorrect), and its
\* incorrect predictions equal the pipeline's branch_mispredictions.
C26_PredictorTally ==
    /\ branch_predictor_.correct + branch_predictor_.incorrect
           = stats_.branch_taken_count + stats_.branch_not_taken_count
    /\ branch_predictor_.incorrect = stats_.branch_mispredictions

\* C26 witness: under the tournament predictor EX has resolved branches both
\* ways, some predicted correctly and some not
C26_Witness ==
    /\ branch_predictor_.kind = "Tournament"
    /\ branch_predictor_.correct >= 2
    /\ branch_predictor_.incorrect >= 2
    /\ stats_.branch_taken_count >= 2
    /\ stats_.branch_not_taken_count >= 1

(* ----------------------------------------------------------------------- *)
(* Programs with jumps through registers, branches and compressed code      *)
(* ----------------------------------------------------------------------- *)

JumpLen == 3
JumpCycles == 10

JumpInstrs ==
    { IType(7, 0, 0, 5, 19),        \* addi   t0, zero, 7
      IType(1, 5, 0, 1, 103),       \* jalr   ra, 1(t0)
      IType(3, 0, 0, 0, 103),       \* jalr   zero, 3(zero)
      BType(-4, 0, 5, 1),           \* bne    t0, zero, -4
      CBType(6, 0, 2),              \* c.beqz s0, +4   (always taken)
      CIType(0, 5, 1),              \* c.addi t0, 1
      JType(6, 0) }                 \* jal    zero, +6

JumpPredictors == {"none", "AlwaysTaken", "Bimodal"}

InitJump ==
    \E prog \in SeqsUpTo(JumpInstrs, JumpLen) :
        \E kind \in JumpPredictors : Loaded(prog, kind)

NextJump == stepSimulation(JumpCycles)

SpecJump == InitJump /\ [][NextJump]_vars

\* C29: after any number of ticks the PC is 2-byte aligned: a fetch adds 2
\* or 4, a branch or JAL adds an even immediate to an even address, a
\* recovery uses an even address, and JALR clears bit 0 of its target.
C29_PCAligned ==
    /\ [](PC % 2 = 0 /\ if_id.pc % 2 = 0)
    /\ [][/\ PC' # PC /\ ~ex'.flush /\ ~id_flush' => PC' \in {Add32(PC, 2), Add32(PC, 4)}
          /\ id_ex.valid /\ id_ex.opcode = 103 =>
                 /\ ex'.pc % 2 = 0
                 /\ ex'.pc \in {Add32(ex'.operand1, id_ex.immediate),
                                Add32(ex'.operand1, id_ex.immediate) - 1}]_vars

\* C29 witness: EX resolved a JALR whose register plus immediate was odd and
\* IF has fetched from the target with bit 0 cleared
C29_Witness ==
    /\ ex.ran /\ ex.id.opcode = 103
    /\ Add32(ex.operand1, ex.id.immediate) % 2 = 1
    /\ ex.pc = Add32(ex.operand1, ex.id.immediate) - 1
    /\ if_id.valid /\ if_id.pc = ex.pc
    /\ PC % 2 = 0

\* C30: instructions_retired counts the committed instructions: every valid
\* MEM/WB latch that WB processes adds exactly 1 to it, also when the
\* instruction writes a register and names x0 as destination (addi x0, x0, 0
\* or jal x0), and an invalid latch adds nothing.
C30_RetiresEveryCommit ==
    [][currentCycle_' # currentCycle_ =>
          stats_'.instructions_retired
              = stats_.instructions_retired + (IF mem_wb.valid THEN 1 ELSE 0)]_vars

(* ----------------------------------------------------------------------- *)
(* Runs with tracing enabled or disabled                                    *)
(* ----------------------------------------------------------------------- *)

TraceLen == 3
TraceCycles == 10

TraceInstrs ==
    { IType(42, 0, 0, 10, 19),      \* addi a0, zero, 42
      SType(8, 10, 0, 2),           \* sw   a0, 8(zero)
      IType(8, 0, 2, 5, 3),         \* lw   t0, 8(zero)
      RType(0, 10, 5, 0, 10),       \* add  a0, t0, a0
      BType(-4, 0, 5, 1) }          \* bne  t0, zero, -4

InitTrace ==
    \E prog \in SeqsUpTo(TraceInstrs, TraceLen) :
        LoadedWith(prog, "Bimodal", DirectMappedCache(4096, 32))

NextTrace == stepSimulation(TraceCycles) \/ enable_tracing(TRUE)

SpecTrace == InitTrace /\ [][NextTrace]_vars

\* the processor without what tracing keeps
Execution(m) == [m EXCEPT !.tracing = NewTracing]

\* C31: tracing never affects execution: a tick of a run with tracing enabled
\* leaves the PC, the registers, the latches, the flush and stall flags, the
\* data memory, the cache, the predictor and the statistics exactly as the
\* same tick of the run with tracing disabled leaves them, so the two runs
\* agree after every tick; enabling tracing changes none of them either.
C31_TracingInert ==
    /\ [][currentCycle_' # currentCycle_ =>
             \E wide \in WideShifts, folded \in FoldedCompares :
                 Execution(cpu')
                     = Execution(run_pipeline_cycle(Execution(cpu), instMem, maxPC,
                                                    currentCycle_', wide, folded))]_vars
    /\ [][currentCycle_' = currentCycle_ => Execution(cpu') = Execution(cpu)]_vars

\* C31 witness: a traced run has retired an instruction and has recorded a
\* register change, a load that hit in the cache, a dependency and six
\* pipeline snapshots
C31_Witness ==
    /\ tracing.enable_tracing_
    /\ Len(tracing.pipeline_trace_) >= 6
    /\ Len(tracing.register_history_) >= 1
    /\ Len(tracing.instruction_dependencies_) >= 1
    /\ \E i \in 1..Len(tracing.memory_access_history_) :
           /\ ~tracing.memory_access_history_[i].is_write
           /\ tracing.memory_access_history_[i].cache_hit
    /\ stats_.instructions_retired >= 1

(* ----------------------------------------------------------------------- *)
(* Resetting the processor in the middle of a run                           *)
(* ----------------------------------------------------------------------- *)

ResetLen == 2
ResetCycles == 8
ResetCalls == 1

ResetInstrs ==
    { IType(1, 10, 0, 10, 19),       \* addi a0,a0,1
      SType(8, 10, 0, 2),            \* sw   a0,8(zero)
      BType(-4, 0, 10, 1) }          \* bne  a0,zero,-4

InitReset ==
    \E prog \in SeqsUpTo(ResetInstrs, ResetLen) :
        LoadedWith(prog, "Bimodal", DirectMappedCache(4096, 32))

NextReset ==
    \/ stepSimulation(ResetCycles)
    \/ enable_tracing(TRUE)
    \/ cpu_reset(ResetCalls)
    \/ set_max_pc(Len(instMem))

SpecReset == InitReset /\ [][NextReset]_vars

\* the processor its constructor makes, wired to the device dev and to the
\* predictor createBranchPredictor makes for scheme kind, with tracing as set
Constructed(kind, dev, enabled) ==
    [NewCPU(IF kind = "none" THEN NewPredictor("none") ELSE NewPredictor(kind))
        EXCEPT !.dmem_ = dev, !.tracing.enable_tracing_ = enabled]

\* C32: after CPU::reset(), whatever the state before, PC = 0, all integer
\* and FP registers are 0, the four latches and both forwarding snapshots are
\* invalid with default fields, flush and stall are false, the statistics and
\* the trace are empty and the attached predictor is as constructed; the
\* processor is then the one its constructor makes but for the data memory
\* and the tracing switch, so nothing produced before the reset reaches an
\* instruction issued after it.
C32_ResetClears ==
    [][Len(calls') > Len(calls) =>
          /\ PC' = 0
          /\ \A i \in 0..31 : registers'[i] = 0 /\ registers_fp'[i] = 0
          /\ if_id' = IF_ID_Register /\ id_ex' = ID_EX_Register
          /\ ex_mem' = EX_MEM_Register /\ mem_wb' = MEM_WB_Register
          /\ ex_mem_prev' = EX_MEM_Register /\ mem_wb_prev' = MEM_WB_Register
          /\ ~pipeline_flush' /\ ~pipeline_stall'
          /\ stats_' = CPUStatistics
          /\ tracing' = [NewTracing EXCEPT
                            !.enable_tracing_ = tracing.enable_tracing_]
          /\ branch_predictor_' = NewPredictor(branch_predictor_.kind)
          /\ dmem_' = dmem_
          /\ cpu' = Constructed(branch_predictor_.kind, dmem_,
                                tracing.enable_tracing_)]_vars

\* C32 witness: the processor was reset in the middle of a traced run, with
\* a written register, a valid latch, valid snapshots of which one writes that
\* register, and a trained predictor, and has run the program again since
C32_Witness ==
    /\ Len(calls) = 1
    /\ calls[1].before.registers[10] # 0
    /\ calls[1].before.ex_mem_prev.valid /\ calls[1].before.mem_wb_prev.valid
    /\ calls[1].before.mem_wb_prev.regWrite /\ calls[1].before.mem_wb_prev.rd = 10
    /\ calls[1].before.mem_wb.valid
    /\ calls[1].before.branch_predictor_.kind = "Bimodal"
    /\ calls[1].before.branch_predictor_ # NewPredictor("Bimodal")
    /\ Len(calls[1].before.tracing.pipeline_trace_) > 0
    /\ stats_.total_cycles >= 3
    /\ id_ex.valid

(* ----------------------------------------------------------------------- *)
(* Compressed instructions                                                  *)
(* ----------------------------------------------------------------------- *)

ExpandCycles == 1

\* every 16-bit word that is a compressed instruction
CompressedWords == {w \in 0..65535 : is_compressed_instruction(w)}

InitExpand == \E w \in CompressedWords : Loaded(<< w >>, "none")

NextExpand == stepSimulation(ExpandCycles)

SpecExpand == InitExpand /\ [][NextExpand]_vars

\* The RV32C encodings of the supported instructions (C.ADDI4SPN, C.LW, C.SW,
\* C.ADDI, C.JAL, C.LI, C.ADDI16SP, C.LUI, C.SRLI, C.SRAI, C.ANDI, C.SUB,
\* C.XOR, C.OR, C.AND, C.J, C.BEQZ, C.BNEZ, C.SLLI, C.LWSP, C.JR, C.MV,
\* C.JALR, C.ADD, C.SWSP) and the reserved encodings of RV32C.  The hints,
\* C.NOP, C.EBREAK, the shifts with shamt[5] = 1 and the floating-point
\* loads and stores are neither.

\* the immediate {bit 12, bits 6:2}, sign-extended
Rv32cImm6(c) == sign_extend(Field(c, 12, 1) * 32 + Field(c, 2, 5), 6)

\* the offset of C.LW and C.SW: uimm[5:3] in bits 12:10, uimm[2] in bit 6,
\* uimm[6] in bit 5
Rv32cWordOffset(c) == Field(c, 10, 3) * 8 + Field(c, 6, 1) * 4 + Field(c, 5, 1) * 64

\* the offset of C.J and C.JAL: imm[11|4|9:8|10|6|7|3:1|5] in bits 12:2
Rv32cJumpOffset(c) ==
    sign_extend(Field(c, 12, 1) * 2048 + Field(c, 11, 1) * 16 + Field(c, 9, 2) * 256
                + Field(c, 8, 1) * 1024 + Field(c, 7, 1) * 64 + Field(c, 6, 1) * 128
                + Field(c, 3, 3) * 2 + Field(c, 2, 1) * 32, 12)

\* the offset of C.BEQZ and C.BNEZ: imm[8|4:3] in bits 12:10, imm[7:6|2:1|5]
\* in bits 6:2
Rv32cBranchOffset(c) ==
    sign_extend(Field(c, 12, 1) * 256 + Field(c, 10, 2) * 8 + Field(c, 5, 2) * 64
                + Field(c, 3, 2) * 2 + Field(c, 2, 1) * 32, 9)

\* nzimm of C.ADDI16SP: nzimm[9] in bit 12, nzimm[4|6|8:7|5] in bits 6:2
Rv32cStackAdjust(c) ==
    sign_extend(Field(c, 12, 1) * 512 + Field(c, 6, 1) * 16 + Field(c, 5, 1) * 64
                + Field(c, 3, 2) * 128 + Field(c, 2, 1) * 32, 10)

Rv32cReserved(c) ==
    LET funct3 == Field(c, 13, 3)
        rd     == Field(c, 7, 5)
    IN  \/ c % 4 = 0 /\ funct3 = 0 /\ Field(c, 5, 8) = 0
        \/ c % 4 = 0 /\ funct3 = 4
        \/ c % 4 = 1 /\ funct3 = 3 /\ rd # 0 /\ Rv32cImm6(c) = 0
        \/ c % 4 = 1 /\ funct3 = 4 /\ Field(c, 10, 3) = 7
        \/ c % 4 = 2 /\ funct3 = 2 /\ rd = 0
        \/ c % 4 = 2 /\ funct3 = 4 /\ Field(c, 2, 5) = 0 /\ rd = 0
                     /\ Field(c, 12, 1) = 0

Rv32cSupported(c) ==
    LET funct3 == Field(c, 13, 3)
        rd     == Field(c, 7, 5)
        rs2    == Field(c, 2, 5)
    IN  /\ ~Rv32cReserved(c)
        /\ \/ c % 4 = 0 /\ funct3 \in {0, 2, 6}
           \/ c % 4 = 1 /\ funct3 = 0 /\ rd # 0 /\ Rv32cImm6(c) # 0
           \/ c % 4 = 1 /\ funct3 \in {1, 5, 6, 7}
           \/ c % 4 = 1 /\ funct3 = 2 /\ rd # 0
           \/ c % 4 = 1 /\ funct3 = 3 /\ rd # 0
           \/ c % 4 = 1 /\ funct3 = 4 /\ Field(c, 10, 2) \in {0, 1}
                        /\ Field(c, 12, 1) = 0 /\ rs2 # 0
           \/ c % 4 = 1 /\ funct3 = 4 /\ Field(c, 10, 2) \in {2, 3}
           \/ c % 4 = 2 /\ funct3 = 0 /\ Field(c, 12, 1) = 0 /\ rd # 0 /\ rs2 # 0
           \/ c % 4 = 2 /\ funct3 \in {2, 6}
           \/ c % 4 = 2 /\ funct3 = 4 /\ rd # 0

\* the standard expansion of a supported instruction of quadrant 0
Rv32cQuadrant0(c, funct3, rdp, rs1p) ==
    IF funct3 = 0 THEN IType(Field(c, 7, 4) * 64 + Field(c, 11, 2) * 16
                             + Field(c, 5, 1) * 8 + Field(c, 6, 1) * 4, 2, 0, rdp, 19)
    ELSE IF funct3 = 2 THEN IType(Rv32cWordOffset(c), rs1p, 2, rdp, 3)
    ELSE SType(Rv32cWordOffset(c), rdp, rs1p, 2)

\* the standard expansion of a supported instruction of quadrant 1
Rv32cQuadrant1(c, funct3, rd, rdp, rs1p) ==
    IF funct3 = 0 THEN IType(Rv32cImm6(c), rd, 0, rd, 19)
    ELSE IF funct3 = 1 THEN JType(Rv32cJumpOffset(c), 1)
    ELSE IF funct3 = 2 THEN IType(Rv32cImm6(c), 0, 0, rd, 19)
    ELSE IF funct3 = 3 THEN
        IF rd = 2 THEN IType(Rv32cStackAdjust(c), 2, 0, 2, 19)
        ELSE UType(Rv32cImm6(c) % 1048576, rd, 55)
    ELSE IF funct3 = 4 THEN
        IF Field(c, 10, 2) = 0 THEN IType(Field(c, 2, 5), rs1p, 5, rs1p, 19)
        ELSE IF Field(c, 10, 2) = 1 THEN IType(1024 + Field(c, 2, 5), rs1p, 5, rs1p, 19)
        ELSE IF Field(c, 10, 2) = 2 THEN IType(Rv32cImm6(c), rs1p, 7, rs1p, 19)
        ELSE IF Field(c, 5, 2) = 0 THEN RType(32, rdp, rs1p, 0, rs1p)
        ELSE IF Field(c, 5, 2) = 1 THEN RType(0, rdp, rs1p, 4, rs1p)
        ELSE IF Field(c, 5, 2) = 2 THEN RType(0, rdp, rs1p, 6, rs1p)
        ELSE RType(0, rdp, rs1p, 7, rs1p)
    ELSE IF funct3 = 5 THEN JType(Rv32cJumpOffset(c), 0)
    ELSE BType(Rv32cBranchOffset(c), 0, rs1p, funct3 - 6)

\* the standard expansion of a supported instruction of quadrant 2
Rv32cQuadrant2(c, funct3, rd, rs2) ==
    IF funct3 = 0 THEN IType(rs2, rd, 1, rd, 19)
    ELSE IF funct3 = 2 THEN
        IType(Field(c, 12, 1) * 32 + Field(c, 4, 3) * 4 + Field(c, 2, 2) * 64,
              2, 2, rd, 3)
    ELSE IF funct3 = 6 THEN
        SType(Field(c, 9, 4) * 4 + Field(c, 7, 2) * 64, rs2, 2, 2)
    ELSE IF rs2 = 0 THEN IType(0, rd, 0, Field(c, 12, 1), 103)
    ELSE RType(0, rs2, IF Field(c, 12, 1) = 1 THEN rd ELSE 0, 0, rd)

\* the standard RV32C expansion: 0 for a reserved encoding
Rv32cExpansion(c) ==
    IF Rv32cReserved(c) THEN 0
    ELSE IF c % 4 = 0
    THEN Rv32cQuadrant0(c, Field(c, 13, 3), 8 + Field(c, 2, 3), 8 + Field(c, 7, 3))
    ELSE IF c % 4 = 1
    THEN Rv32cQuadrant1(c, Field(c, 13, 3), Field(c, 7, 5), 8 + Field(c, 2, 3),
                        8 + Field(c, 7, 3))
    ELSE Rv32cQuadrant2(c, Field(c, 13, 3), Field(c, 7, 5), Field(c, 2, 5))

\* C33: for every compressed word that encodes a supported RV32C instruction
\* IF latches the standard RV32C expansion of the word (same operation,
\* registers and immediate), and for every reserved encoding it latches 0
\* and leaves IF/ID invalid.
C33_StandardExpansion ==
    /\ currentCycle_ = 1 /\ if_id.is_compressed
    /\ Rv32cSupported(if_id.compressed_inst) \/ Rv32cReserved(if_id.compressed_inst)
    => /\ if_id.instruction = Rv32cExpansion(if_id.compressed_inst)
       /\ if_id.valid = ~Rv32cReserved(if_id.compressed_inst)

\* C34: every word of quadrant 1 with funct3 = 4, bits 11:10 = 3, bit 12 = 1,
\* bit 6 = 0 and bit 8 = 0 expands to the R-type AND (opcode 0x33, funct3 7,
\* funct7 0) with rd = rs1 = 8 + bits 9:7 and rs2 = 8 + bits 4:2.
C34_AndEncoding ==
    /\ currentCycle_ = 1 /\ if_id.is_compressed
    /\ if_id.compressed_inst % 4 = 1
    /\ Field(if_id.compressed_inst, 13, 3) = 4
    /\ Field(if_id.compressed_inst, 10, 3) = 7
    /\ Field(if_id.compressed_inst, 6, 1) = 0
    /\ Field(if_id.compressed_inst, 8, 1) = 0
    => /\ if_id.valid
       /\ if_id.instruction % 128 = 51
       /\ Field(if_id.instruction, 12, 3) = 7
       /\ Field(if_id.instruction, 25, 7) = 0
       /\ Field(if_id.instruction, 7, 5) = 8 + Field(if_id.compressed_inst, 7, 3)
       /\ Field(if_id.instruction, 15, 5) = 8 + Field(if_id.compressed_inst, 7, 3)
       /\ Field(if_id.instruction, 20, 5) = 8 + Field(if_id.compressed_inst, 2, 3)

\* C34 witness: IF latched the word 0x9c89 as and s1,s1,a0
C34_Witness ==
    /\ currentCycle_ = 1
    /\ if_id.is_compressed /\ if_id.compressed_inst = 40073
    /\ if_id.valid /\ if_id.instruction = RType(0, 10, 9, 7, 9)

(* ----------------------------------------------------------------------- *)
(* Running a program to its end                                             *)
(* ----------------------------------------------------------------------- *)

DrainLen == 3
DrainCycles == 12

DrainInstrs ==
    { IType(1, 0, 0, 5, 19),         \* addi t0,zero,1
      0,                             \* an all-zero halfword
      BType(6, 0, 0, 0),             \* beq  zero,zero,+6
      BType(-4, 0, 5, 1),            \* bne  t0,zero,-4
      JType(8, 1) }                  \* jal  ra,+8

DrainPredictors == {"none", "AlwaysTaken"}

InitDrain ==
    \E prog \in SeqsUpTo(DrainInstrs, DrainLen), kind \in DrainPredictors :
        Loaded(prog, kind)

NextDrain == stepSimulation(DrainCycles)

\* the host's cycle counter moves on: what every step of NextDrain does, and
\* what it can do exactly when the counter is short of the cap
HostTicks == currentCycle_ < DrainCycles /\ currentCycle_' = currentCycle_ + 1

\* the host keeps stepping until its cycle cap
SpecDrain == InitDrain /\ [][NextDrain]_vars /\ WF_currentCycle_(HostTicks)

\* EX ran a branch that is taken, or a jump, to a target at or below its PC
TakenBackward ==
    /\ ex.ran
    /\ \/ ex.should_branch /\ Add32(ex.id.pc, ex.id.immediate) <= ex.id.pc
       \/ ex.id.opcode = 111 /\ Add32(ex.id.pc, ex.id.immediate) <= ex.id.pc
       \/ ex.id.opcode = 103
            /\ JalrTarget(ex.operand1, ex.id.immediate) <= ex.id.pc

\* IF finds the end of the program at pc: pc is past maxPC or the instruction
\* word there reads as all zeros
EndOfProgram(pc) ==
    \/ PastEnd(pc, maxPC)
    \/ get_instruction_16bit(instMem, pc) = 0
    \/ /\ ~is_compressed_instruction(get_instruction_16bit(instMem, pc))
       /\ get_instruction(instMem, pc) = 0

FloatCycles == 12

FloatRegs == {0, 1, 2, 31}
FloatValues == {1, 42, 2047}

\* addi a0,zero,v; sw a0,8(zero); flw fk,8(zero); nop; nop; nop; fsw fk,12(zero)
FloatProgram(k, v) ==
    << IType(v, 0, 0, 10, 19), SType(8, 10, 0, 2), IType(8, 0, 2, k, 7),
       IType(0, 0, 0, 0, 19), IType(0, 0, 0, 0, 19), IType(0, 0, 0, 0, 19),
       SType(12, k, 0, 2) + 4 >>

InitFloat == \E k \in FloatRegs, v \in FloatValues : Loaded(FloatProgram(k, v), "none")

NextFloat == stepSimulation(FloatCycles)

SpecFloat == InitFloat /\ [][NextFloat]_vars

\* the destination of the flw of the loaded program
FloatRd == Field(get_instruction(instMem, 8), 7, 5)

\* C36: once the program has run dry, the FP register the flw named holds
\* the 32-bit pattern that was loaded (the word a0 was stored as), and the
\* fsw that followed the flw three instructions later has stored that same
\* pattern.
C36_FlwThenFsw ==
    Drained =>
        /\ registers_fp[FloatRd] = registers[10]
        /\ RamLoad(dmem_.ram, 12, 4).data = registers[10]

(* ----------------------------------------------------------------------- *)
(* LUI and AUIPC                                                            *)
(* ----------------------------------------------------------------------- *)

UpperCycles == 10
UpperPads == 2

\* 20-bit immediates: bits 19:15 of the instruction word are their bits 7:3
UpperImms == {0, 1, 8, 524288, 1048575}

\* 0 to UpperPads nops; addi ra,zero,5; then lui t0,imm or auipc t0,imm
UpperProgram(pads, opcode, imm) ==
    [i \in 1..pads |-> IType(0, 0, 0, 0, 19)]
        \o << IType(5, 0, 0, 1, 19), UType(imm, 5, opcode) >>

InitUpper ==
    \E pads \in 0..UpperPads, opcode \in {55, 23}, imm \in UpperImms :
        Loaded(UpperProgram(pads, opcode, imm), "none")

NextUpper == stepSimulation(UpperCycles)

SpecUpper == InitUpper /\ [][NextUpper]_vars

\* the last instruction of the loaded program and its address
UpperWord == get_instruction(instMem, maxPC - 4)

\* C37: once the program has run dry, t0 holds the immediate shifted left by
\* 12 if the last instruction is the lui, and the address of the instruction
\* plus that shifted immediate if it is the auipc, whatever ra holds.
C37_UpperImmediate ==
    Drained =>
        registers[5] = IF Field(UpperWord, 0, 7) = 55
                       THEN UpperWord - (UpperWord % 4096)
                       ELSE Add32(maxPC - 4, UpperWord - (UpperWord % 4096))

(* ----------------------------------------------------------------------- *)
(* Which instructions enter EX                                              *)
(* ----------------------------------------------------------------------- *)

\* the address of the instruction that follows the one ID/EX latch idx holds
FallThrough(idx) == Add32(idx.pc, IF idx.is_compressed THEN 2 ELSE 4)

\* C38: in every tick, if EX redirects the PC (misprediction, JAL or JALR)
\* then ID/EX is invalid at the end of the tick and an instruction IF latches
\* in that tick is the one at the redirected PC; if ID redirects on a branch
\* predicted taken then IF latches nothing and the PC is the branch target;
\* and an instruction that enters ID/EX is the one IF/ID held, EX has not
\* redirected, and the instruction EX ran in that tick, if any, is neither a
\* jump nor a branch that is taken: the entering instruction is its
\* fall-through.
C38_NoWrongPath ==
    [][currentCycle_' # currentCycle_ =>
          /\ ex'.flush => /\ ex'.ran
                          /\ ~id_ex'.valid
                          /\ if_id'.valid => if_id'.pc = ex'.pc
          /\ id_flush' => /\ ~if_id'.valid
                          /\ PC' = Add32(id_ex'.pc, id_ex'.immediate)
          /\ id_ex'.valid => /\ if_id.valid /\ id_ex'.pc = if_id.pc
                             /\ ~ex'.flush
                             /\ ex'.ran => /\ ~ex'.should_branch
                                           /\ ex'.id.opcode \notin {103, 111}
                                           /\ id_ex'.pc = FallThrough(ex'.id)]_vars

\* C38 witness: EX resolved a branch as taken that ID had predicted not
\* taken; the fall-through instruction that sat in IF/ID was not decoded and
\* IF/ID now holds the instruction at the branch target
C38_Witness ==
    /\ ex.ran /\ ex.flush /\ ex.mispredicted /\ ex.should_branch
    /\ ~id_ex.valid
    /\ if_id.valid /\ if_id.pc = Add32(ex.id.pc, ex.id.immediate)
    /\ if_id.pc # FallThrough(ex.id)

(* ----------------------------------------------------------------------- *)
(* Loads with dependent instructions, among jumps and taken branches        *)
(* ----------------------------------------------------------------------- *)

HazardLen == 3
HazardCycles == 10

HazardInstrs ==
    { JType(4, 0),                  \* jal  zero,+4
      IType(8, 0, 2, 5, 3),         \* lw   t0,8(zero)
      IType(1, 5, 0, 5, 19),        \* addi t0,t0,1
      BType(8, 0, 0, 0) }           \* beq  zero,zero,+8

HazardPredictors == {"none", "AlwaysTaken"}

InitHazard ==
    \E prog \in SeqsUpTo(HazardInstrs, HazardLen), kind \in HazardPredictors :
        Loaded(prog, kind)

NextHazard == stepSimulation(HazardCycles)

SpecHazard == InitHazard /\ [][NextHazard]_vars

\* C39: at the end of every tick the flush flag and the stall flag are
\* false and no stall has been counted; and IF never holds its latch: an
\* instruction in IF/ID at the end of a tick was fetched in that tick, at the
\* PC that EX left (the redirected PC if EX redirected), and the PC has moved
\* past it.
C39_NoStallNoFlushLeft ==
    /\ [](~pipeline_flush /\ ~pipeline_stall /\ stats_.stall_count = 0)
    /\ [][currentCycle_' # currentCycle_ /\ if_id'.valid =>
             /\ ~id_flush'
             /\ if_id'.pc = (IF ex'.ran THEN ex'.pc ELSE PC)
             /\ PC' = FallThrough(if_id')]_vars

\* C39 witness: after a tick that had a flush, EX has run a load while ID
\* decoded an instruction that reads the load's destination, and no stall
\* was raised or counted
C39_Witness ==
    /\ stats_.flush_count >= 1
    /\ ex.ran /\ ex.id.memRe /\ ex.id.regWrite /\ ex.id.rd # 0
    /\ id_ex.valid /\ id_ex.rs1 = ex.id.rd
    /\ ~pipeline_stall /\ stats_.stall_count = 0

(* ----------------------------------------------------------------------- *)
(* Victims among the ways of a set                                          *)
(* ----------------------------------------------------------------------- *)

\* the set of the cache that the line at idx belongs to still has an invalid way
HasInvalidWay(c, idx) ==
    \E w \in 0..c.associativity_ - 1 :
        (idx \div c.associativity_) * c.associativity_ + w \notin c.valids_

\* C40: in the fully associative and the set-associative cache no load or
\* store, whatever calls came before it (calls whose fill failed included),
\* evicts a valid line while the set of that line still has an invalid way.
C40_InvalidWaysFirst ==
    [][calls' # calls /\ Associative(dmem_.cache) =>
          \A idx \in dmem_.cache.valids_ :
              HasInvalidWay(dmem_.cache, idx) =>
                  /\ idx \in dmem_'.cache.valids_
                  /\ TagAt(dmem_'.cache, idx) = TagAt(dmem_.cache, idx)]_vars

====
